---- MODULE Spec2Model ----
(***************************************************************************)
(* dead-code-finder: the DeadCodeAnalyzer (analyzer.ts), its lexical       *)
(* patterns (config.ts), the classification heuristics (utils.ts) and the  *)
(* structural analyzer (ast-analyzer.ts), as a state machine.              *)
(*                                                                         *)
(* A source file is a path and a text.  A text is a sequence of lexical    *)
(* tokens: words (maximal runs of \w characters), white space, and         *)
(* punctuation.  A regular expression of the source is a sequence of       *)
(* pattern elements over tokens; keyword literals of a pattern match whole *)
(* tokens, which is where the \b anchors and the \s separators of the      *)
(* source patterns put them in the texts modelled here.                    *)
(***************************************************************************)
EXTENDS Naturals, Integers, Sequences, FiniteSets, TLC

\* ------------------------------------------------------------------ bounds

\* Statements in the whole file set.
MaxStmts == 2
\* Calls of findDeadCode on one analyzer.
MaxRuns == 2

\* ------------------------------------------------------- characters, names

Digits == {"0", "1", "2", "3", "4", "5", "6", "7", "8", "9"}

LowerLetters ==
    {"a", "b", "c", "d", "e", "f", "g", "h", "i", "j", "k", "l", "m",
     "n", "o", "p", "q", "r", "s", "t", "u", "v", "w", "x", "y", "z"}

UpperLetters ==
    {"A", "B", "C", "D", "E", "F", "G", "H", "I", "J", "K", "L", "M",
     "N", "O", "P", "Q", "R", "S", "T", "U", "V", "W", "X", "Y", "Z"}

\* The i-th character of a string.
CharAt(s, i) == SubSeq(s, i, i)

FirstChar(s) == IF Len(s) = 0 THEN "" ELSE CharAt(s, 1)

\* \w
IsWordChar(c) == c \in LowerLetters \cup UpperLetters \cup Digits \cup {"_"}

\* [a-zA-Z_]
IsIdentStart(c) == c \in LowerLetters \cup UpperLetters \cup {"_"}

AllDigits(s) == \A i \in 1..Len(s) : CharAt(s, i) \in Digits

AllWordChars(s) == \A i \in 1..Len(s) : IsWordChar(CharAt(s, i))

\* s.includes(sub)
Includes(s, sub) ==
    \E i \in 1..(Len(s) + 1) :
        /\ i + Len(sub) - 1 <= Len(s)
        /\ SubSeq(s, i, i + Len(sub) - 1) = sub

\* s.startsWith(pre)
StartsWith(s, pre) == Len(pre) <= Len(s) /\ SubSeq(s, 1, Len(pre)) = pre

\* s.endsWith(suf)
EndsWith(s, suf) ==
    Len(suf) <= Len(s) /\ SubSeq(s, Len(s) - Len(suf) + 1, Len(s)) = suf

\* BUILT_INS of config.ts.
BUILT_INS ==
    {"React", "useState", "useEffect", "useContext", "useReducer", "useCallback", "useMemo",
     "useRef", "useImperativeHandle", "useLayoutEffect", "useDebugValue", "useDeferredValue",
     "useTransition", "useId", "useSyncExternalStore", "useInsertionEffect", "Fragment",
     "Suspense", "ErrorBoundary", "StrictMode", "Profiler", "memo", "forwardRef", "lazy",
     "createElement", "cloneElement", "createContext", "Children", "isValidElement", "createRef",
     "NextPage", "GetServerSideProps", "GetStaticProps", "GetStaticPaths", "InferGetServerSidePropsType",
     "InferGetStaticPropsType", "NextApiRequest", "NextApiResponse", "NextPageContext", "AppProps",
     "AppContext", "Head", "Html", "Main", "NextScript", "Document", "App", "Router", "Image", "Link",
     "useRouter", "usePathname", "useSearchParams", "useSelectedLayoutSegment", "useSelectedLayoutSegments",
     "useServerInsertedHTML", "redirect", "notFound",
     "div", "span", "p", "h1", "h2", "h3", "h4", "h5", "h6", "a", "img", "button", "input", "form",
     "ul", "li", "ol", "table", "tr", "td", "th", "thead", "tbody", "section", "article", "header",
     "footer", "nav", "main", "aside", "figure", "figcaption", "blockquote", "code", "pre",
     "strong", "em", "b", "i", "u", "mark", "small", "sub", "sup", "br", "hr", "iframe", "canvas",
     "svg", "path", "circle", "rect", "g", "line", "polyline", "polygon", "text", "ellipse",
     "console", "window", "document", "localStorage", "sessionStorage", "setTimeout", "setInterval",
     "clearTimeout", "clearInterval", "fetch", "Promise", "async", "await", "try", "catch", "finally",
     "if", "else", "for", "while", "do", "switch", "case", "default", "break", "continue", "return",
     "throw", "new", "typeof", "instanceof", "delete", "void", "null", "undefined", "true", "false",
     "this", "Array", "Object", "String", "Number", "Boolean", "Map", "Set", "Date", "Math", "JSON",
     "RegExp", "Error", "Function", "Symbol", "Proxy", "Reflect", "WeakMap", "WeakSet", "Intl",
     "WebAssembly", "decodeURI", "encodeURI", "decodeURIComponent", "encodeURIComponent", "isNaN",
     "isFinite", "parseFloat", "parseInt", "eval", "isPrototypeOf", "hasOwnProperty", "valueOf",
     "toString", "toLocaleString", "constructor", "prototype",
     "interface", "type", "enum", "namespace", "declare", "module", "export", "import", "from", "as",
     "extends", "implements", "public", "private", "protected", "readonly", "abstract",
     "static", "function", "const", "let", "var", "class",
     "axios", "clsx", "zod", "reactHookForm", "useForm", "useTranslations", "useLocale",
     "cn", "classNames", "twMerge", "z",
     "eventEmitter", "EVENT_TYPES"}

\* A filter that knows the all-digit names only.
isCommonPatternDigitsOnly(name) == Len(name) > 0 /\ AllDigits(name)

\* isCommonPattern of utils.ts: /^\d+$/, /^[a-z]$/, /^[A-Z]$/, /^[^a-zA-Z_]/.
isCommonPattern(name) ==
    \/ (Len(name) > 0 /\ AllDigits(name))
    \/ (Len(name) = 1 /\ name \in LowerLetters)
    \/ (Len(name) = 1 /\ name \in UpperLetters)
    \/ (Len(name) > 0 /\ ~IsIdentStart(FirstChar(name)))

\* The test every recording site applies: BUILT_INS.has(name) || isCommonPattern(name).
Filtered(name) == name \in BUILT_INS \/ isCommonPattern(name)

\* REACT_HOOKS_REGEX of config.ts: /^use[A-Z]\w*$/ .
REACT_HOOKS_REGEX(s) ==
    /\ Len(s) >= 4
    /\ SubSeq(s, 1, 3) = "use"
    /\ CharAt(s, 4) \in UpperLetters
    /\ AllWordChars(s)

\* ------------------------------------------------------------------- paths

\* A path is its directory segments, the basename without extension, and the
\* extension: src/utils/fmt.ts is [dir |-> <<"src", "utils">>, base |-> "fmt",
\* ext |-> ".ts"].  globSync returns paths relative to the working directory.
FileA == [dir |-> <<"src">>, base |-> "a", ext |-> ".ts"]

FileHelper == [dir |-> <<"src">>, base |-> "helper", ext |-> ".ts"]

\* The file list globSync returns, in discovery order.
GlobFiles == <<FileA, FileHelper>>

RECURSIVE JoinSegs(_)
JoinSegs(segs) ==
    IF Len(segs) = 0 THEN ""
    ELSE IF Len(segs) = 1 THEN segs[1]
    ELSE segs[1] \o "/" \o JoinSegs(Tail(segs))

\* path.basename(file)
BaseName(f) == f.base \o f.ext

\* path.dirname(file)
DirName(f) == IF Len(f.dir) = 0 THEN "." ELSE JoinSegs(f.dir)

\* The path as globSync spells it (relative to the working directory).
PathStr(f) == JoinSegs(Append(f.dir, BaseName(f)))

IsPrefixSeq(p, s) == Len(p) <= Len(s) /\ SubSeq(s, 1, Len(p)) = p

\* path.relative(from, file), for a file below the directory from.
RelSegs(from, f) ==
    IF IsPrefixSeq(from, f.dir) THEN SubSeq(f.dir, Len(from) + 1, Len(f.dir))
    ELSE [i \in 1..Len(from) |-> ".."] \o f.dir

RelativeTo(from, f) == JoinSegs(Append(RelSegs(from, f), BaseName(f)))

\* DEFAULT_CONFIG.srcDir of config-loader.ts.
DefaultSrcDir == <<"src">>

\* ------------------------------------------------------------------ texts

IsWs(t) == t \in {" ", "\n"}

\* A word token: a maximal run of \w characters.
IsWord(t) == Len(t) > 0 /\ AllWordChars(t)

\* [a-zA-Z_]\w* between word boundaries
IsIdent(t) == IsWord(t) /\ IsIdentStart(FirstChar(t))

\* [A-Z]\w*
IsUpperIdent(t) == IsWord(t) /\ FirstChar(t) \in UpperLetters

\* [a-z]\w*
IsLowerIdent(t) == IsWord(t) /\ FirstChar(t) \in LowerLetters

\* The statements a modelled text is made of.  Each is one line of source.
\*   func           [export [default]] function NAME(){}
\*   var            [export] KW NAME = 1        (init "lit")
\*                  [export] KW NAME = () => {} (init "arrow")
\*   importDefault  import NAME from 'SPELL'
\*   importNamed    import { NAME } from 'SPELL'
\*   importAs       import { IMPORTED as NAME } from 'SPELL'
\*   importAll      import * as NAME from 'SPELL'
\*   call           NAME()
\*   ref            NAME;
\*   exportList     export { NAME }
\*   exportDefault  export default NAME
Stmt(kind, name, exp, kw, init, spell) ==
    [kind |-> kind, name |-> name, exp |-> exp, kw |-> kw, init |-> init, spell |-> spell]

FuncDecl(name, exp) == Stmt("func", name, exp, "", "", <<>>)

VarDecl(name, exp, kw, init) == Stmt("var", name, exp, kw, init, <<>>)

ImportDefault(name, spell) == Stmt("importDefault", name, "", "", "", spell)

ImportNamed(name, spell) == Stmt("importNamed", name, "", "", "", spell)

\* An aliased import: name is the local name, imported the exporter's.
ImportAs(imported, name, spell) ==
    [kind |-> "importAs", name |-> name, exp |-> "", kw |-> "", init |-> "",
     spell |-> spell, imported |-> imported]

ImportAll(name, spell) == Stmt("importAll", name, "", "", "", spell)

CallStmt(name) == Stmt("call", name, "", "", "", <<>>)

RefStmt(name) == Stmt("ref", name, "", "", "", <<>>)

ExportList(name) == Stmt("exportList", name, "", "", "", <<>>)

ExportDefault(name) == Stmt("exportDefault", name, "", "", "", <<>>)

\* The tokens of an export prefix: "", "export", "export default".
ExpToks(exp) ==
    IF exp = "export" THEN <<"export", " ">>
    ELSE IF exp = "default" THEN <<"export", " ", "default", " ">>
    ELSE <<>>

\* The tokens of an identifier: $ is no \w character, so $el is two tokens.
NameToks(name) ==
    IF Len(name) > 1 /\ FirstChar(name) = "$"
    THEN <<"$", SubSeq(name, 2, Len(name))>>
    ELSE <<name>>

\* The tokens of one statement, its line break included.
StmtText(s) ==
    CASE s.kind = "func" ->
            ExpToks(s.exp) \o <<"function", " ">> \o NameToks(s.name)
                \o <<"(", ")", "{", "}", "\n">>
      [] s.kind = "var" ->
            ExpToks(s.exp) \o <<s.kw, " ">> \o NameToks(s.name) \o <<" ", "=", " ">>
                \o (IF s.init = "arrow" THEN <<"(", ")", " ", "=>", " ", "{", "}">>
                    ELSE <<"1">>)
                \o <<"\n">>
      [] s.kind = "importDefault" ->
            <<"import", " ">> \o NameToks(s.name) \o <<" ", "from", " ", "'">>
                \o s.spell \o <<"'", "\n">>
      [] s.kind = "importNamed" ->
            <<"import", " ", "{", " ">> \o NameToks(s.name)
                \o <<" ", "}", " ", "from", " ", "'">> \o s.spell \o <<"'", "\n">>
      [] s.kind = "importAs" ->
            <<"import", " ", "{", " ">> \o NameToks(s.imported) \o <<" ", "as", " ">>
                \o NameToks(s.name)
                \o <<" ", "}", " ", "from", " ", "'">> \o s.spell \o <<"'", "\n">>
      [] s.kind = "importAll" ->
            <<"import", " ", "*", " ", "as", " ">> \o NameToks(s.name)
                \o <<" ", "from", " ", "'">> \o s.spell \o <<"'", "\n">>
      [] s.kind = "call" -> NameToks(s.name) \o <<"(", ")", "\n">>
      [] s.kind = "ref" -> NameToks(s.name) \o <<";", "\n">>
      [] s.kind = "exportList" ->
            <<"export", " ", "{", " ">> \o NameToks(s.name) \o <<" ", "}", "\n">>
      [] s.kind = "exportDefault" ->
            <<"export", " ", "default", " ">> \o NameToks(s.name) \o <<"\n">>

RECURSIVE TextOf(_)
\* The text of a file: its statements' tokens, in order.
TextOf(stmts) ==
    IF Len(stmts) = 0 THEN <<>> ELSE StmtText(Head(stmts)) \o TextOf(Tail(stmts))

RECURSIVE SumLen(_)
\* The size of a text in characters (fs.statSync(file).size for ASCII text).
SumLen(toks) == IF Len(toks) = 0 THEN 0 ELSE Len(Head(toks)) + SumLen(Tail(toks))

\* content.substring(0, index).split('\n').length : the line of token i.
LineOf(toks, i) == 1 + Cardinality({j \in 1..(i - 1) : toks[j] = "\n"})

\* --------------------------------------------------- regular expressions

\* A pattern is a sequence of elements, each matched against tokens:
\*   lit(S)     one token of S (a keyword, a punctuation character)
\*   ws1, ws0   \s+ , \s*
\*   cap(C)     a captured word of class C: "Id" [a-zA-Z_]\w*, "Up" [A-Z]\w*,
\*              "Lo" [a-z]\w*
\*   word       \w+ , not captured
\*   bol        ^ under the m flag
\*   arrowOrFn  (?:\([^)]*\)\s*=>|function)
\*   capTo(S)   ([^x]+) followed by x, x the one character of S: captures the text
\*   path       [quote]([^quote]+)[quote] : captures the text between the quotes
\*   jsx        <([A-Z]\w*|[^/][a-z]\w*)(?:\s+[^>]*)?\/?>(?![\s\S]*<\/[A-Z]\w*>)
\*   argList    \(([^)]*\b([a-zA-Z_]\w*)\b[^)]*)\)
\*   lastIn(C)  [^}]*\b(C)\b[^}]*} : captures the last word of class C before the }
\*   lastAs     [^}]*\b([a-zA-Z_]\w*)\s+as\s+([a-zA-Z_]\w*)\b[^}]*}
\*   hoc        with[A-Z]\w* , a word that ends so
Lit(S) == [k |-> "lit", s |-> S]

Ws1 == [k |-> "ws1", s |-> {}]

Ws0 == [k |-> "ws0", s |-> {}]

Cap(c) == [k |-> "cap", s |-> {c}]

WordEl == [k |-> "word", s |-> {}]

Bol == [k |-> "bol", s |-> {}]

ArrowOrFn == [k |-> "arrowOrFn", s |-> {}]

CapTo(S) == [k |-> "capTo", s |-> S]

PathEl == [k |-> "path", s |-> {}]

JsxEl == [k |-> "jsx", s |-> {}]

ArgList == [k |-> "argList", s |-> {}]

LastIn(c) == [k |-> "lastIn", s |-> {c}]

LastAs == [k |-> "lastAs", s |-> {}]

Hoc == [k |-> "hoc", s |-> {}]

\* ['"] : the texts modelled here hold no backquote, the third quote of the class.
Quotes == {"'", "\""}

InClass(t, c) ==
    CASE c = "Id" -> IsIdent(t)
      [] c = "Up" -> IsUpperIdent(t)
      [] c = "Lo" -> IsLowerIdent(t)

RECURSIVE SkipWs(_, _)
\* The first index at or after i that holds no white space.
SkipWs(toks, i) ==
    IF i <= Len(toks) /\ IsWs(toks[i]) THEN SkipWs(toks, i + 1) ELSE i

RECURSIVE FindTok(_, _, _)
\* The first index at or after i holding a token of S; 0 when there is none.
FindTok(toks, i, S) ==
    IF i > Len(toks) THEN 0
    ELSE IF toks[i] \in S THEN i
    ELSE FindTok(toks, i + 1, S)

RECURSIVE Concat(_, _, _)
\* The text of tokens i..j.
Concat(toks, i, j) == IF i > j THEN "" ELSE toks[i] \o Concat(toks, i + 1, j)

NoMatch == [ok |-> FALSE, end |-> 0, caps |-> <<>>]

\* A word with[A-Z]\w* ends in: with, an upper-case letter, word characters.
IsHoc(t) ==
    /\ IsWord(t)
    /\ \E i \in 1..Len(t) :
          /\ i + 4 <= Len(t)
          /\ SubSeq(t, i, i + 3) = "with"
          /\ CharAt(t, i + 4) \in UpperLetters

\* The largest index in lo..hi whose token satisfies class c; 0 when none does.
LastOfClass(toks, lo, hi, c) ==
    LET last(S) == IF S = {} THEN 0 ELSE CHOOSE j \in S : \A h \in S : h <= j
    IN last({j \in lo..hi : InClass(toks[j], c)})

\* name \s+ as \s+ name starting at token j and ending before token hi.
AsPairAt(toks, j, hi) ==
    LET a == SkipWs(toks, j + 1)
        b == SkipWs(toks, a + 1)
    IN /\ IsIdent(toks[j])
       /\ a > j + 1 /\ a < hi /\ toks[a] = "as"
       /\ b > a + 1 /\ b < hi /\ IsIdent(toks[b])

\* The name the first alternative group of the JSX usage pattern captures after
\* the < at token i: [A-Z]\w* , or [^/][a-z]\w* (any character but / and then a
\* lower-case word).  len is the number of tokens it spans, 0 for no match.
JsxName(toks, i) ==
    LET n == Len(toks)
        t1 == IF i + 1 <= n THEN toks[i + 1] ELSE ""
        t2 == IF i + 2 <= n THEN toks[i + 2] ELSE ""
    IN IF IsUpperIdent(t1) THEN [len |-> 1, name |-> t1]
       ELSE IF IsWord(t1) /\ Len(t1) >= 2 /\ CharAt(t1, 2) \in LowerLetters
       THEN [len |-> 1, name |-> t1]
       ELSE IF Len(t1) = 1 /\ ~IsWord(t1) /\ t1 # "/" /\ IsLowerIdent(t2)
       THEN [len |-> 2, name |-> t1 \o t2]
       ELSE [len |-> 0, name |-> ""]

\* Tokens that hold the character > .
HasGt == {">", "=>"}

\* The index after (?:\s+[^>]*)?\/?> matched at token j; 0 for no match.
JsxTail(toks, j) ==
    LET n == Len(toks)
    IN IF j > n THEN 0
       ELSE IF IsWs(toks[j])
       THEN LET g == FindTok(toks, j + 1, HasGt) IN IF g > 0 THEN g + 1 ELSE 0
       ELSE IF toks[j] = ">" THEN j + 1
       ELSE IF toks[j] = "/" /\ j + 1 <= n /\ toks[j + 1] = ">" THEN j + 2
       ELSE 0

\* [\s\S]*<\/[A-Z]\w*> matches at token e: a closing tag of an upper-case name
\* somewhere in the rest of the text.
ClosingTagAfter(toks, e) ==
    \E h \in e..Len(toks) :
        /\ h + 3 <= Len(toks)
        /\ toks[h] = "<" /\ toks[h + 1] = "/"
        /\ IsUpperIdent(toks[h + 2]) /\ toks[h + 3] = ">"

RECURSIVE MatchFrom(_, _, _, _, _)
\* The match of elements j.. of pat at token i, with the captures so far.
MatchFrom(pat, j, toks, i, caps) ==
    IF j > Len(pat) THEN [ok |-> TRUE, end |-> i, caps |-> caps]
    ELSE
      LET e == pat[j]
          has == i <= Len(toks)
      IN
      CASE e.k = "lit" ->
             IF has /\ toks[i] \in e.s THEN MatchFrom(pat, j + 1, toks, i + 1, caps)
             ELSE NoMatch
        [] e.k = "ws1" ->
             IF has /\ IsWs(toks[i])
             THEN MatchFrom(pat, j + 1, toks, SkipWs(toks, i), caps)
             ELSE NoMatch
        [] e.k = "ws0" -> MatchFrom(pat, j + 1, toks, SkipWs(toks, i), caps)
        [] e.k = "cap" ->
             IF has /\ \E c \in e.s : InClass(toks[i], c)
             THEN MatchFrom(pat, j + 1, toks, i + 1, Append(caps, toks[i]))
             ELSE NoMatch
        [] e.k = "word" ->
             IF has /\ IsWord(toks[i]) THEN MatchFrom(pat, j + 1, toks, i + 1, caps)
             ELSE NoMatch
        [] e.k = "bol" ->
             IF i = 1 \/ (i - 1 <= Len(toks) /\ toks[i - 1] = "\n")
             THEN MatchFrom(pat, j + 1, toks, i, caps)
             ELSE NoMatch
        [] e.k = "arrowOrFn" ->
             IF has /\ toks[i] = "function"
             THEN MatchFrom(pat, j + 1, toks, i + 1, caps)
             ELSE IF has /\ toks[i] = "("
             THEN LET close == FindTok(toks, i + 1, {")"})
                      arrow == SkipWs(toks, close + 1)
                  IN IF close > 0 /\ arrow <= Len(toks) /\ toks[arrow] = "=>"
                     THEN MatchFrom(pat, j + 1, toks, arrow + 1, caps)
                     ELSE NoMatch
             ELSE NoMatch
        [] e.k = "capTo" ->
             LET close == FindTok(toks, i, e.s)
             IN IF close > i
                THEN MatchFrom(pat, j + 1, toks, close + 1,
                               Append(caps, Concat(toks, i, close - 1)))
                ELSE NoMatch
        [] e.k = "path" ->
             IF has /\ toks[i] \in Quotes
             THEN LET close == FindTok(toks, i + 1, Quotes)
                  IN IF close > i + 1
                     THEN MatchFrom(pat, j + 1, toks, close + 1,
                                    Append(caps, Concat(toks, i + 1, close - 1)))
                     ELSE NoMatch
             ELSE NoMatch
        [] e.k = "hoc" ->
             IF has /\ IsHoc(toks[i]) THEN MatchFrom(pat, j + 1, toks, i + 1, caps)
             ELSE NoMatch
        [] e.k = "jsx" ->
             IF has /\ toks[i] = "<"
             THEN LET tag(nm, e2) ==
                          IF e2 > 0 /\ ~ClosingTagAfter(toks, e2)
                          THEN MatchFrom(pat, j + 1, toks, e2, Append(caps, nm.name))
                          ELSE NoMatch
                      named(nm) ==
                          tag(nm, IF nm.len = 0 THEN 0 ELSE JsxTail(toks, i + 1 + nm.len))
                  IN named(JsxName(toks, i))
             ELSE NoMatch
        [] e.k = "argList" ->
             IF has /\ toks[i] = "("
             THEN LET args(close, last) ==
                          IF last > 0
                          THEN MatchFrom(pat, j + 1, toks, close + 1,
                                         caps \o <<Concat(toks, i + 1, close - 1),
                                                   toks[last]>>)
                          ELSE NoMatch
                      upTo(close) ==
                          args(close, IF close = 0 THEN 0
                                      ELSE LastOfClass(toks, i + 1, close - 1, "Id"))
                  IN upTo(FindTok(toks, i + 1, {")"}))
             ELSE NoMatch
        [] e.k = "lastIn" ->
             LET names(close, last) ==
                     IF last > 0
                     THEN MatchFrom(pat, j + 1, toks, close + 1, Append(caps, toks[last]))
                     ELSE NoMatch
                 largest(S) == IF S = {} THEN 0 ELSE CHOOSE h \in S : \A g \in S : g <= h
                 upTo(close) ==
                     names(close, IF close = 0 THEN 0
                                  ELSE largest({h \in i..(close - 1) :
                                                   \E c \in e.s : InClass(toks[h], c)}))
             IN upTo(FindTok(toks, i, {"}"}))
        [] e.k = "lastAs" ->
             LET pair(close, h) ==
                     MatchFrom(pat, j + 1, toks, close + 1,
                               caps \o <<toks[h],
                                         toks[SkipWs(toks, SkipWs(toks, h + 1) + 1)]>>)
                 pairs(close, S) ==
                     IF S # {}
                     THEN pair(close, CHOOSE g \in S : \A f \in S : f <= g)
                     ELSE NoMatch
                 upTo(close) ==
                     pairs(close, IF close = 0 THEN {}
                                  ELSE {h \in i..(close - 1) : AsPairAt(toks, h, close)})
             IN upTo(FindTok(toks, i, {"}"}))

MatchAt(pat, toks, i) == MatchFrom(pat, 1, toks, i, <<>>)

RECURSIVE ScanFrom(_, _, _)
\* pattern.exec(text) in a loop under the g flag: the successive matches, each
\* with the token it starts at and its captures.
ScanFrom(pat, toks, i) ==
    IF i > Len(toks) THEN <<>>
    ELSE LET next(m) ==
                 IF m.ok
                 THEN <<[at |-> i, caps |-> m.caps]>>
                          \o ScanFrom(pat, toks, IF m.end > i THEN m.end ELSE i + 1)
                 ELSE ScanFrom(pat, toks, i + 1)
         IN next(MatchAt(pat, toks, i))

ScanAll(pat, toks) == ScanFrom(pat, toks, 1)

\* pattern.test(text)
Test(pat, toks) == \E i \in 1..Len(toks) : MatchAt(pat, toks, i).ok

Kw == Lit({"const", "var", "let"})

\* PATTERNS.component of config.ts, in order.
PATTERNS_component ==
    << <<Lit({"export"}), Ws1, Lit({"default"}), Ws1, Lit({"function"}), Ws1,
         Cap("Up"), Ws0, Lit({"("})>>,
       <<Lit({"export"}), Ws1, Lit({"default"}), Ws1, Kw, Ws1,
         Cap("Up"), Ws0, Lit({"="}), Ws0, ArrowOrFn>>,
       <<Lit({"export"}), Ws1, Lit({"function"}), Ws1, Cap("Up"), Ws0, Lit({"("})>>,
       <<Lit({"export"}), Ws1, Kw, Ws1, Cap("Up"), Ws0, Lit({"="}), Ws0, ArrowOrFn>>,
       <<Kw, Ws1, Cap("Up"), Ws0, Lit({"="}), Ws0, ArrowOrFn>>,
       <<Lit({"function"}), Ws1, Cap("Up"), Ws0, Lit({"("})>> >>

\* PATTERNS.function of config.ts, in order.
PATTERNS_function ==
    << <<Lit({"function"}), Ws1, Cap("Lo"), Ws0, Lit({"("})>>,
       <<Kw, Ws1, Cap("Lo"), Ws0, Lit({"="}), Ws0, ArrowOrFn>>,
       <<Lit({"export"}), Ws1, Lit({"function"}), Ws1, Cap("Lo"), Ws0, Lit({"("})>>,
       <<Lit({"export"}), Ws1, Kw, Ws1, Cap("Lo"), Ws0, Lit({"="}), Ws0, ArrowOrFn>> >>

\* PATTERNS.variable of config.ts, in order.
PATTERNS_variable ==
    << <<Lit({"export"}), Ws1, Kw, Ws1, Cap("Id"), Ws0, Lit({"="})>>,
       <<Bol, Ws0, Kw, Ws1, Cap("Id"), Ws0, Lit({"="})>> >>

\* PATTERNS.import of config.ts, in order.  In each the first capture is the
\* imported name (or the text between the braces), the second the path.
PATTERNS_import ==
    << <<Lit({"import"}), Ws0, Lit({"{"}), Ws0, CapTo({"}"}), Ws1, Lit({"from"}), Ws1,
         PathEl>>,
       <<Lit({"import"}), Ws1, Cap("Id"), Ws1, Lit({"from"}), Ws1, PathEl>>,
       <<Lit({"import"}), Ws1, Lit({"*"}), Ws1, Lit({"as"}), Ws1, Cap("Id"), Ws1,
         Lit({"from"}), Ws1, PathEl>> >>

\* typeImportPattern of analyzeFile.
typeImportPattern ==
    <<Lit({"import"}), Ws1, Lit({"type"}), Ws0, Lit({"{"}), Ws0, CapTo({"}"}), Ws1,
      Lit({"from"}), Ws1, PathEl>>

\* PATTERNS.usage of config.ts, in order.
PATTERNS_usage ==
    << <<JsxEl>>,
       <<Cap("Id"), Ws0, Lit({"(", "."})>>,
       <<Cap("Id")>>,
       <<Cap("Id"), Ws0, Lit({"("})>>,
       <<Cap("Id"), Ws0, Lit({":"}), Ws0, Cap("Id")>>,
       <<Lit({"{"}), Ws0, Cap("Id"), Ws0, Lit({"}"})>>,
       <<ArgList>>,
       <<Lit({" ", "\n", "(", "["}), Cap("Id"), Ws0, Lit({"="}), Ws0, Lit({"{"}),
         Cap("Id"), Lit({"}"})>>,
       <<Lit({"export"}), Ws0, Lit({"{"}), LastAs>>,
       <<Lit({"export"}), Ws1, Lit({"default"}), Ws1, Cap("Id")>>,
       <<Hoc, Lit({"("}), Cap("Id"), Lit({")"})>>,
       <<Lit({"."}), Lit({"."}), Lit({"."}), Cap("Id")>>,
       <<Lit({":"}), Ws0, Cap("Up")>>,
       <<Lit({"<"}), Ws0, Cap("Up"), Ws0, Lit({">"})>>,
       <<Lit({"interface", "type"}), Ws1, WordEl, Ws1, Lit({"extends"}), Ws1, Cap("Up")>>,
       <<Lit({"import"}), Ws1, Lit({"type"}), Ws0, Lit({"{"}), LastIn("Up")>> >>

\* ------------------------------------------------------- string helpers

WhiteChars == {" ", "\n", "\t"}

RECURSIVE TrimLeft(_)
TrimLeft(s) ==
    IF Len(s) > 0 /\ CharAt(s, 1) \in WhiteChars THEN TrimLeft(SubSeq(s, 2, Len(s)))
    ELSE s

RECURSIVE TrimRight(_)
TrimRight(s) ==
    IF Len(s) > 0 /\ CharAt(s, Len(s)) \in WhiteChars
    THEN TrimRight(SubSeq(s, 1, Len(s) - 1))
    ELSE s

\* s.trim()
Trim(s) == TrimRight(TrimLeft(s))

\* The index of the first occurrence of sub in s; 0 when there is none.
IndexOf(s, sub) ==
    LET S == {i \in 1..Len(s) :
                 i + Len(sub) - 1 <= Len(s) /\ SubSeq(s, i, i + Len(sub) - 1) = sub}
    IN IF S = {} THEN 0 ELSE CHOOSE i \in S : \A j \in S : i <= j

RECURSIVE Split(_, _)
\* s.split(sep), sep one character or more.
Split(s, sep) ==
    LET i == IndexOf(s, sep)
    IN IF i = 0 THEN <<s>>
       ELSE <<SubSeq(s, 1, i - 1)>> \o Split(SubSeq(s, i + Len(sep), Len(s)), sep)

LowerOf ==
    [c \in UpperLetters |->
        CASE c = "A" -> "a" [] c = "B" -> "b" [] c = "C" -> "c" [] c = "D" -> "d"
          [] c = "E" -> "e" [] c = "F" -> "f" [] c = "G" -> "g" [] c = "H" -> "h"
          [] c = "I" -> "i" [] c = "J" -> "j" [] c = "K" -> "k" [] c = "L" -> "l"
          [] c = "M" -> "m" [] c = "N" -> "n" [] c = "O" -> "o" [] c = "P" -> "p"
          [] c = "Q" -> "q" [] c = "R" -> "r" [] c = "S" -> "s" [] c = "T" -> "t"
          [] c = "U" -> "u" [] c = "V" -> "v" [] c = "W" -> "w" [] c = "X" -> "x"
          [] c = "Y" -> "y" [] c = "Z" -> "z"]

RECURSIVE ToLowerCase(_)
\* s.toLowerCase()
ToLowerCase(s) ==
    IF Len(s) = 0 THEN ""
    ELSE LET c == CharAt(s, 1)
         IN (IF c \in UpperLetters THEN LowerOf[c] ELSE c)
                \o ToLowerCase(SubSeq(s, 2, Len(s)))

\* The text of a whole token sequence.
TextStr(toks) == Concat(toks, 1, Len(toks))

\* The character offset (from 0) at which token i starts: match.index.
OffsetOf(toks, i) == SumLen(SubSeq(toks, 1, i - 1))

\* text.substring(0, offset).split('\n').length
LineAtOffset(toks, offset) ==
    1 + Cardinality({j \in 1..Len(toks) : toks[j] = "\n" /\ OffsetOf(toks, j) < offset})

\* Some token run of the text spells the words ws (one blank between words) and
\* then the start of a word: content.includes('export default ' + name).
IncludesPhrase(toks, ws, name) ==
    \E i \in 1..Len(toks) :
        /\ i + 2 * Len(ws) <= Len(toks)
        /\ \A h \in 1..Len(ws) :
              /\ IF h = 1 THEN EndsWith(toks[i], ws[1]) ELSE toks[i + 2 * (h - 1)] = ws[h]
              /\ toks[i + 2 * h - 1] = " "
        /\ StartsWith(toks[i + 2 * Len(ws)], name)

\* --------------------------------------------- classification heuristics

\* appRouterPatterns and pageRouterPatterns of isNextJsEntryPoint.
EntryBaseNames ==
    {"page", "layout", "loading", "error", "not-found", "template", "global-error",
     "default", "_app", "_document", "_error", "index"}

EntryFileNames ==
    {b \o e : b \in EntryBaseNames, e \in {".tsx", ".ts", ".jsx", ".js"}}
        \cup {"route.ts", "route.js", "middleware.ts", "middleware.js"}

\* isNextJsEntryPoint of utils.ts.  relativePath is the path relative to the
\* working directory, which is how globSync spells the path.
isNextJsEntryPoint(f) ==
    LET fileName == BaseName(f)
        relativePath == PathStr(f)
    IN \/ fileName \in EntryFileNames
       \/ Includes(relativePath, "/app/")
       \/ Includes(relativePath, "/pages/")

\* /return\s*\(?<[\s\S]*?>/ or /return\s*<[\s\S]*?>/
hasJSXReturn(toks) ==
    \E i \in 1..Len(toks) :
        /\ EndsWith(toks[i], "return")
        /\ LET j == SkipWs(toks, i + 1)
               k == IF j <= Len(toks) /\ toks[j] = "(" THEN j + 1 ELSE j
           IN /\ k <= Len(toks) /\ toks[k] = "<"
              /\ FindTok(toks, k + 1, HasGt) > 0

\* /className|onClick|onSubmit|onChange|style/
usesJSXAttributes(toks) ==
    \E i \in 1..Len(toks) :
        \E w \in {"className", "onClick", "onSubmit", "onChange", "style"} :
            Includes(toks[i], w)

\* /<Fragment>|<\w+\s+Fragment>/
usesReactFragment(toks) ==
    \/ Test(<<Lit({"<"}), Lit({"Fragment"}), Lit({">"})>>, toks)
    \/ Test(<<Lit({"<"}), WordEl, Ws1, Lit({"Fragment"}), Lit({">"})>>, toks)

\* /memo\(/ and /forwardRef\(/
CallsSuffix(toks, w) ==
    \E i \in 1..(Len(toks) - 1) : EndsWith(toks[i], w) /\ toks[i + 1] = "("

\* content.includes('"use client"')
usesUseClientDirective(toks) ==
    Test(<<Lit({"\""}), Lit({"use"}), Lit({" "}), Lit({"client"}), Lit({"\""})>>, toks)

\* A classification that looks at the "use client" directive before the name.
isLikelyComponentDirectiveFirst(name, content, f) ==
    \/ usesUseClientDirective(content)
    \/ (FirstChar(name) \in UpperLetters /\ isNextJsEntryPoint(f))

\* isLikelyComponent of utils.ts.
isLikelyComponent(name, content, f) ==
    IF FirstChar(name) \notin UpperLetters THEN FALSE
    ELSE
      LET hasReactHooks == REACT_HOOKS_REGEX(TextStr(content))
          attrs == usesJSXAttributes(content)
          relativePath == ToLowerCase(PathStr(f))
          isInComponentDir == \/ Includes(relativePath, "/components/")
                              \/ Includes(relativePath, "/component/")
                              \/ Includes(relativePath, "/ui/")
      IN \/ usesUseClientDirective(content)
         \/ isNextJsEntryPoint(f)
         \/ hasJSXReturn(content)
         \/ hasReactHooks \/ attrs \/ usesReactFragment(content)
                \/ CallsSuffix(content, "memo") \/ CallsSuffix(content, "forwardRef")
         \/ (isInComponentDir /\ (hasReactHooks \/ attrs))

\* -------------------------------------------------------- lexical strategy

\* Set.add on a set kept in insertion order.
AddUnique(seq, x) ==
    IF \E i \in 1..Len(seq) : seq[i] = x THEN seq ELSE Append(seq, x)

Has(seq, x) == \E i \in 1..Len(seq) : seq[i] = x

RECURSIVE AllMatches(_, _)
\* The matches of each pattern of a list in turn, over one text.
AllMatches(pats, toks) ==
    IF Len(pats) = 0 THEN <<>>
    ELSE ScanAll(Head(pats), toks) \o AllMatches(Tail(pats), toks)

RECURSIVE DropLineComments(_, _)
\* content.replace(/\/\/.*$/gm, '') : from // to the end of the line.
DropLineComments(toks, i) ==
    IF i > Len(toks) THEN <<>>
    ELSE IF i < Len(toks) /\ toks[i] = "/" /\ toks[i + 1] = "/"
    THEN LET nl == FindTok(toks, i, {"\n"})
         IN IF nl = 0 THEN <<>> ELSE DropLineComments(toks, nl)
    ELSE <<toks[i]>> \o DropLineComments(toks, i + 1)

\* The index of the * of the first */ at or after token i; 0 when there is none.
BlockEnd(toks, i) ==
    LET S == {j \in i..(Len(toks) - 1) : toks[j] = "*" /\ toks[j + 1] = "/"}
    IN IF S = {} THEN 0 ELSE CHOOSE j \in S : \A h \in S : j <= h

RECURSIVE DropBlockComments(_, _)
\* result.replace(/\/\*[\s\S]*?\*\//g, '')
DropBlockComments(toks, i) ==
    IF i > Len(toks) THEN <<>>
    ELSE IF i < Len(toks) /\ toks[i] = "/" /\ toks[i + 1] = "*"
                /\ BlockEnd(toks, i + 2) > 0
    THEN DropBlockComments(toks, BlockEnd(toks, i + 2) + 2)
    ELSE <<toks[i]>> \o DropBlockComments(toks, i + 1)

\* removeComments of analyzer.ts.
removeComments(content) == DropBlockComments(DropLineComments(content, 1), 1)

\* isTopLevelVariable of analyzer.ts: index is the token the match starts at.
isTopLevelVariable(content, index) ==
    LET before == SubSeq(content, 1, index - 1)
        nls == {j \in 1..Len(before) : before[j] = "\n"}
        lineStart == IF nls = {} THEN 1 ELSE (CHOOSE j \in nls : \A h \in nls : h <= j) + 1
        currentLine == Concat(before, lineStart, Len(before))
        openBraces == Cardinality({j \in 1..Len(before) : before[j] = "{"})
        closeBraces == Cardinality({j \in 1..Len(before) : before[j] = "}"})
        trimmedLine == Trim(currentLine)
    IN IF openBraces > closeBraces THEN FALSE
       ELSE \/ StartsWith(trimmedLine, "const ")
            \/ StartsWith(trimmedLine, "let ")
            \/ StartsWith(trimmedLine, "var ")

\* The key of definitionLines.
LineKey(file, name) == file \o ":" \o name

EmptyDefinitions ==
    [components |-> <<>>, functions |-> <<>>, variables |-> <<>>, imports |-> <<>>,
     exports |-> <<>>, lines |-> <<>>]

ExportedAs(content, words, name) ==
    \E w \in words : IncludesPhrase(content, w, name)

RECURSIVE ExtractComponents(_, _, _, _, _)
\* analyzeFile, "Extract component definitions", over the matches ms.
ExtractComponents(ms, d, content, cwc, f) ==
    IF Len(ms) = 0 THEN d
    ELSE
      LET m == Head(ms)
          name == m.caps[1]
          lineNumber == LineAtOffset(content, OffsetOf(cwc, m.at))
          asComponent ==
              [d EXCEPT
                 !.components = AddUnique(@, name),
                 !.exports =
                    IF ExportedAs(content, {<<"export", "default">>,
                                            <<"export", "function">>,
                                            <<"export", "const">>}, name)
                    THEN AddUnique(@, name) ELSE @]
          asFunction ==
              [d EXCEPT
                 !.functions = AddUnique(@, name),
                 !.exports =
                    IF ExportedAs(content, {<<"export", "function">>,
                                            <<"export", "const">>}, name)
                    THEN AddUnique(@, name) ELSE @]
          d2 == IF isLikelyComponent(name, content, f) THEN asComponent ELSE asFunction
          d3 == [d2 EXCEPT !.lines =
                     Append(@, [key |-> LineKey(PathStr(f), name), line |-> lineNumber])]
      IN ExtractComponents(Tail(ms), IF Filtered(name) THEN d ELSE d3, content, cwc, f)

RECURSIVE ExtractFunctions(_, _, _, _, _)
\* analyzeFile, "Extract function definitions".
ExtractFunctions(ms, d, content, cwc, f) ==
    IF Len(ms) = 0 THEN d
    ELSE
      LET m == Head(ms)
          name == m.caps[1]
          lineNumber == LineAtOffset(content, OffsetOf(cwc, m.at))
          d2 == [d EXCEPT
                   !.functions = AddUnique(@, name),
                   !.exports =
                      IF ExportedAs(content, {<<"export", "function">>,
                                              <<"export", "const">>}, name)
                      THEN AddUnique(@, name) ELSE @,
                   !.lines =
                      Append(@, [key |-> LineKey(PathStr(f), name), line |-> lineNumber])]
      IN ExtractFunctions(Tail(ms),
                          IF ~Filtered(name) /\ ~Has(d.components, name) THEN d2 ELSE d,
                          content, cwc, f)

RECURSIVE ExtractVariables(_, _, _, _, _)
\* analyzeFile, "Extract variable definitions".
ExtractVariables(ms, d, content, cwc, f) ==
    IF Len(ms) = 0 THEN d
    ELSE
      LET m == Head(ms)
          name == m.caps[1]
          lineNumber == LineAtOffset(content, OffsetOf(cwc, m.at))
          d2 == [d EXCEPT
                   !.variables = AddUnique(@, name),
                   !.exports =
                      IF ExportedAs(content, {<<"export", "const">>, <<"export", "let">>,
                                              <<"export", "var">>}, name)
                      THEN AddUnique(@, name) ELSE @,
                   !.lines =
                      Append(@, [key |-> LineKey(PathStr(f), name), line |-> lineNumber])]
          take == /\ ~Filtered(name)
                  /\ ~Has(d.functions, name) /\ ~Has(d.components, name)
                  /\ isTopLevelVariable(cwc, m.at)
      IN ExtractVariables(Tail(ms), IF take THEN d2 ELSE d, content, cwc, f)

RECURSIVE AddImportNames(_, _)
\* imports.forEach of analyzeFile: imp.split(' as ')[0].trim(), filtered, added.
AddImportNames(parts, imports) ==
    IF Len(parts) = 0 THEN imports
    ELSE LET cleanName == Trim(Split(Trim(Head(parts)), " as ")[1])
         IN AddImportNames(Tail(parts),
                           IF Filtered(cleanName) THEN imports
                           ELSE AddUnique(imports, cleanName))

RECURSIVE ExtractImports(_, _)
\* analyzeFile, "Extract imports" and "Extract TypeScript type imports": the
\* first capture of every match is split at the commas.
ExtractImports(ms, imports) ==
    IF Len(ms) = 0 THEN imports
    ELSE ExtractImports(Tail(ms), AddImportNames(Split(Head(ms).caps[1], ","), imports))

\* analyzeFile of analyzer.ts, up to the call of checkUnusedDefinitions: the
\* definitions of one file and the definitionLines entries it sets.
LexDefinitions(f, content) ==
    LET cwc == removeComments(content)
        d1 == ExtractComponents(AllMatches(PATTERNS_component, cwc), EmptyDefinitions,
                                content, cwc, f)
        d2 == ExtractFunctions(AllMatches(PATTERNS_function, cwc), d1, content, cwc, f)
        d3 == ExtractVariables(AllMatches(PATTERNS_variable, cwc), d2, content, cwc, f)
        i1 == ExtractImports(AllMatches(PATTERNS_import, content), <<>>)
        i2 == ExtractImports(ScanAll(typeImportPattern, content), i1)
    IN [d3 EXCEPT !.imports = i2]

RECURSIVE UsagesOfMatches(_, _, _)
\* The inner loops of buildUsageMap for the matches of one pattern: every
\* non-empty capture that is not filtered is pushed with the file and the line.
UsagesOfMatches(ms, file, content) ==
    IF Len(ms) = 0 THEN <<>>
    ELSE LET m == Head(ms)
             line == LineOf(content, m.at)
             keep == SelectSeq(m.caps, LAMBDA n : n # "" /\ ~Filtered(n))
         IN [i \in 1..Len(keep) |-> [name |-> keep[i], file |-> file, line |-> line]]
                \o UsagesOfMatches(Tail(ms), file, content)

\* buildUsageMap for one file: all usage patterns in order.
FileUsages(file, content) ==
    UsagesOfMatches(AllMatches(PATTERNS_usage, content), file, content)

\* usageMap.get(name): the occurrences recorded under name, in order.
UsagesOf(usageMap, name) == SelectSeq(usageMap, LAMBDA u : u.name = name)

\* new RegExp('\\b' + name + '\\s*\\(').test(content)
CalledIn(content, name) ==
    \E i \in 1..Len(content) :
        /\ content[i] = name
        /\ LET j == SkipWs(content, i + 1)
           IN j <= Len(content) /\ content[j] = "("

\* new RegExp('<' + name + '[\\s/>]').test(content)
JsxUsedIn(content, name) ==
    \E i \in 2..(Len(content) - 1) :
        /\ content[i] = name
        /\ content[i - 1] = "<"
        /\ (IsWs(content[i + 1]) \/ content[i + 1] \in {"/", ">"})

\* new RegExp('\\b' + name + '\\b').test(content)
WordIn(content, name) == \E i \in 1..Len(content) : content[i] = name

\* localUsagePatterns.some(...) of isUsed.
hasLocalUsage(content, name) ==
    CalledIn(content, name) \/ JsxUsedIn(content, name) \/ WordIn(content, name)

\* A verdict that takes a hook name for used before it looks at the exports.
isUsedHookFirst(name, usageMap, filePath, content, definitions) ==
    LET usages == SelectSeq(usageMap, LAMBDA u : u.name = name)
    IN IF \E i \in 1..Len(usages) : usages[i].file # filePath THEN TRUE
       ELSE IF \E i \in 1..Len(content) : content[i] = name THEN TRUE
       ELSE IF REACT_HOOKS_REGEX(name) THEN TRUE
       ELSE FALSE

\* isUsed of checkUnusedDefinitions, rule by rule in the order of the code.
isUsed(name, usageMap, filePath, content, definitions) ==
    LET usages == UsagesOf(usageMap, name)
    IN IF \E i \in 1..Len(usages) : usages[i].file # filePath THEN TRUE
       ELSE IF hasLocalUsage(content, name) THEN TRUE
       ELSE IF IncludesPhrase(content, <<"export", "default">>, name) THEN TRUE
       ELSE IF Has(definitions.exports, name) /\ Len(usages) = 0 THEN FALSE
       ELSE IF REACT_HOOKS_REGEX(name) THEN TRUE
       ELSE FALSE

\* An import test that takes a name without any recorded usage for used.
importUnusedExactlyOne(importName, usageMap, content) ==
    /\ Len(SelectSeq(usageMap, LAMBDA u : u.name = importName)) = 1
    /\ IncludesPhrase(content, <<"import">>, importName)

\* The test of "Check unused imports".
importUnused(importName, usageMap, content) ==
    LET usages == UsagesOf(usageMap, importName)
    IN \/ Len(usages) = 0
       \/ Len(usages) = 1 /\ IncludesPhrase(content, <<"import">>, importName)

Issue(name, file, type, line) == [name |-> name, file |-> file, type |-> type, line |-> line]

\* The line of an issue the lexical strategy pushes: it sets none.
NoLine == 0

\* The entries one forEach of checkUnusedDefinitions pushes for the names it keeps.
IssuesOf(names, type, filePath) ==
    [i \in 1..Len(names) |-> Issue(names[i], filePath, type, NoLine)]

\* checkUnusedDefinitions of analyzer.ts: what it pushes on each list.
checkUnusedDefinitions(definitions, filePath, content, usageMap) ==
    LET used(n) == isUsed(n, usageMap, filePath, content, definitions)
    IN [unusedComponents |->
            IssuesOf(SelectSeq(definitions.components, LAMBDA n : ~used(n)),
                     "component", filePath),
        unusedFunctions |->
            IssuesOf(SelectSeq(definitions.functions,
                               LAMBDA n : ~used(n) /\ ~CalledIn(content, n)),
                     "function", filePath),
        unusedVariables |->
            IssuesOf(SelectSeq(definitions.variables, LAMBDA n : ~used(n)),
                     "variable", filePath),
        unusedImports |->
            IssuesOf(SelectSeq(definitions.imports,
                               LAMBDA n : importUnused(n, usageMap, content)),
                     "import", filePath)]

\* ------------------------------------------------------- unused-file pass

\* possibleImportPaths of findUnusedFiles, in order.
possibleImportPaths(f, srcDir) ==
    LET fileName == BaseName(f)
        fileNameWithoutExt == f.base
        rel == RelativeTo(srcDir, f)
        relFromSrc == "./" \o SubSeq(rel, 1, Len(rel) - Len(f.ext))
    IN << "./" \o fileNameWithoutExt, "./" \o fileName, fileNameWithoutExt, fileName,
          relFromSrc, relFromSrc \o f.ext >>

\* The pattern source matches the text from character p on: the path is spliced
\* into the source unescaped, so a dot of the path stands for any character.
PathMatchesAt(str, p, importPath) ==
    /\ p + Len(importPath) - 1 <= Len(str)
    /\ \A k \in 1..Len(importPath) :
          LET c == CharAt(importPath, k)
              d == CharAt(str, p + k - 1)
          IN IF c = "." THEN d # "\n" ELSE d = c

\* importRegex.test(content): the template literal spells \s as s, so the
\* expression is  froms+[quote]importPath[quote] .
importRegexTest(str, importPath) ==
    \E p \in 1..Len(str) :
       /\ p + 3 <= Len(str)
       /\ SubSeq(str, p, p + 3) = "from"
       /\ \E n \in 1..Len(str) :
             /\ p + 5 + n + Len(importPath) <= Len(str)
             /\ \A k \in 1..n : CharAt(str, p + 3 + k) = "s"
             /\ CharAt(str, p + 4 + n) \in Quotes
             /\ PathMatchesAt(str, p + 5 + n, importPath)
             /\ CharAt(str, p + 5 + n + Len(importPath)) \in Quotes

\* The loop over the other files of findUnusedFiles; texts[i] is the text of files[i].
isImported(i, files, texts, srcDir) ==
    LET paths == possibleImportPaths(files[i], srcDir)
    IN \E o \in 1..Len(files) :
          /\ files[o] # files[i]
          /\ \E k \in 1..Len(paths) : importRegexTest(TextStr(texts[o]), paths[k])

ExportWords == {"default", "const", "function", "class", "interface", "type"}

\* /export\s+(?:default|{|const|function|class|interface|type)/.test(fileContent)
hasExports(content) ==
    \E i \in 1..Len(content) :
       /\ EndsWith(content[i], "export")
       /\ i < Len(content) /\ IsWs(content[i + 1])
       /\ LET j == SkipWs(content, i + 1)
          IN j <= Len(content)
             /\ (content[j] = "{" \/ \E w \in ExportWords : StartsWith(content[j], w))

isMainFile(f) ==
    BaseName(f) \in {"index.ts", "index.tsx", "index.js", "index.jsx",
                     "main.ts", "main.tsx", "main.js", "main.jsx"}

isConfigFile(f) ==
    \E w \in {"config", "Config", "setup", "Setup"} : Includes(BaseName(f), w)

isUtilityFile(f) ==
    \E w \in {"utils", "lib", "helpers", "services", "hooks", "components"} :
        Includes(DirName(f), w)

\* The condition under which findUnusedFiles pushes files[i].
FileUnused(i, files, texts, srcDir) ==
    /\ ~isImported(i, files, texts, srcDir)
    /\ ~isNextJsEntryPoint(files[i])
    /\ ~hasExports(texts[i])
    /\ ~isMainFile(files[i])
    /\ ~isConfigFile(files[i])
    /\ ~isUtilityFile(files[i])

\* The files findUnusedFiles warns about: fs.statSync throws on them while the
\* argument of push is evaluated, and the catch logs the warning.
statWarnings(files, texts, srcDir, noStat) ==
    {RelativeTo(srcDir, files[i]) :
        i \in {h \in 1..Len(files) : FileUnused(h, files, texts, srcDir)
                                       /\ files[h] \in noStat}}

\* An unused-file pass that the first failure of fs.statSync ends.
findUnusedFilesUntilFailure(files, texts, srcDir, noStat) ==
    LET idx == SelectSeq([i \in 1..Len(files) |-> i],
                         LAMBDA i : /\ FileUnused(i, files, texts, srcDir)
                                    /\ \A h \in 1..i : files[h] \notin noStat)
    IN [k \in 1..Len(idx) |->
          [path |-> RelativeTo(srcDir, files[idx[k]]), size |-> SumLen(texts[idx[k]])]]

\* findUnusedFiles of analyzer.ts: the entries it pushes, in the order of
\* allFiles; noStat are the files fs.statSync throws on.
findUnusedFiles(files, texts, srcDir, noStat) ==
    LET idx == SelectSeq([i \in 1..Len(files) |-> i],
                         LAMBDA i : /\ FileUnused(i, files, texts, srcDir)
                                    /\ files[i] \notin noStat)
    IN [k \in 1..Len(idx) |->
          [path |-> RelativeTo(srcDir, files[idx[k]]), size |-> SumLen(texts[idx[k]])]]

RECURSIVE InsertBySize(_, _)
\* One step of a stable sort by size, largest first.
InsertBySize(sorted, x) ==
    IF Len(sorted) = 0 THEN <<x>>
    ELSE IF Head(sorted).size >= x.size THEN <<Head(sorted)>> \o InsertBySize(Tail(sorted), x)
    ELSE <<x>> \o sorted

RECURSIVE SortBySize(_)
\* unusedFiles.sort((a, b) => b.size - a.size), which sorts the list in place.
SortBySize(seq) ==
    IF Len(seq) = 0 THEN <<>>
    ELSE InsertBySize(SortBySize(SubSeq(seq, 1, Len(seq) - 1)), seq[Len(seq)])

\* generateDeadCodeReport of analyzer.ts: the total and the sorted file list.
generateDeadCodeReport(a) ==
    [a EXCEPT !.totalIssues =
                  Len(a.unusedComponents) + Len(a.unusedFunctions) + Len(a.unusedVariables)
                      + Len(a.unusedFiles) + Len(a.unusedImports),
              !.unusedFiles = SortBySize(a.unusedFiles)]

\* --------------------------------------------------- structural strategy

\* A syntax-tree node: its type, its name (of an Identifier), the line of
\* loc.start (0 when the node carries no loc), the types met along its parent
\* pointers, and its object-valued properties in enumeration order.
Node(type, name, line, kids) ==
    [type |-> type, name |-> name, line |-> line, up |-> <<>>, kids |-> kids]

Kid(key, nodes) == [key |-> key, nodes |-> nodes]

Identifier(name, line) == Node("Identifier", name, line, <<>>)

\* node[key]: the nodes under a property; none when it is absent or null.
Field(node, key) ==
    LET ks == SelectSeq(node.kids, LAMBDA k : k.key = key)
    IN IF Len(ks) = 0 THEN <<>> ELSE ks[1].nodes

\* node[key]?.name
FieldName(node, key) ==
    IF Len(Field(node, key)) = 0 THEN "" ELSE Field(node, key)[1].name

\* node.loc?.start.line || 1
LineOfNode(node) == IF node.line = 0 THEN 1 ELSE node.line

BlockStatement(line) == Node("BlockStatement", "", line, <<Kid("body", <<>>)>>)

FunctionDeclarationNode(name, line) ==
    Node("FunctionDeclaration", "", line,
         <<Kid("id", <<Identifier(name, line)>>), Kid("params", <<>>),
           Kid("body", <<BlockStatement(line)>>)>>)

InitNode(init, line) ==
    IF init = "arrow"
    THEN Node("ArrowFunctionExpression", "", line,
              <<Kid("params", <<>>), Kid("body", <<BlockStatement(line)>>)>>)
    ELSE Node("Literal", "", line, <<>>)

VariableDeclarationNode(name, init, line) ==
    Node("VariableDeclaration", "", line,
         <<Kid("declarations",
               <<Node("VariableDeclarator", "", line,
                      <<Kid("id", <<Identifier(name, line)>>),
                        Kid("init", <<InitNode(init, line)>>)>>)>>)>>)

DeclarationNode(s, line) ==
    IF s.kind = "func" THEN FunctionDeclarationNode(s.name, line)
    ELSE VariableDeclarationNode(s.name, s.init, line)

\* The node the parser builds for one statement that starts on the given line.
StmtNode(s, line) ==
    CASE s.kind \in {"func", "var"} /\ s.exp = "" -> DeclarationNode(s, line)
      [] s.kind \in {"func", "var"} /\ s.exp = "export" ->
            Node("ExportNamedDeclaration", "", line,
                 <<Kid("declaration", <<DeclarationNode(s, line)>>),
                   Kid("specifiers", <<>>)>>)
      [] s.kind \in {"func", "var"} /\ s.exp = "default" ->
            Node("ExportDefaultDeclaration", "", line,
                 <<Kid("declaration", <<DeclarationNode(s, line)>>)>>)
      [] s.kind = "importDefault" ->
            Node("ImportDeclaration", "", line,
                 <<Kid("source", <<Node("Literal", "", line, <<>>)>>),
                   Kid("specifiers",
                       <<Node("ImportDefaultSpecifier", "", line,
                              <<Kid("local", <<Identifier(s.name, line)>>)>>)>>)>>)
      [] s.kind = "importNamed" ->
            Node("ImportDeclaration", "", line,
                 <<Kid("source", <<Node("Literal", "", line, <<>>)>>),
                   Kid("specifiers",
                       <<Node("ImportSpecifier", "", line,
                              <<Kid("local", <<Identifier(s.name, line)>>),
                                Kid("imported", <<Identifier(s.name, line)>>)>>)>>)>>)
      [] s.kind = "importAs" ->
            Node("ImportDeclaration", "", line,
                 <<Kid("source", <<Node("Literal", "", line, <<>>)>>),
                   Kid("specifiers",
                       <<Node("ImportSpecifier", "", line,
                              <<Kid("local", <<Identifier(s.name, line)>>),
                                Kid("imported", <<Identifier(s.imported, line)>>)>>)>>)>>)
      [] s.kind = "importAll" ->
            Node("ImportDeclaration", "", line,
                 <<Kid("source", <<Node("Literal", "", line, <<>>)>>),
                   Kid("specifiers",
                       <<Node("ImportNamespaceSpecifier", "", line,
                              <<Kid("local", <<Identifier(s.name, line)>>)>>)>>)>>)
      [] s.kind = "call" ->
            Node("ExpressionStatement", "", line,
                 <<Kid("expression",
                       <<Node("CallExpression", "", line,
                              <<Kid("callee", <<Identifier(s.name, line)>>),
                                Kid("arguments", <<>>)>>)>>)>>)
      [] s.kind = "ref" ->
            Node("ExpressionStatement", "", line,
                 <<Kid("expression", <<Identifier(s.name, line)>>)>>)
      [] s.kind = "exportList" ->
            Node("ExportNamedDeclaration", "", line,
                 <<Kid("specifiers",
                       <<Node("ExportSpecifier", "", line,
                              <<Kid("local", <<Identifier(s.name, line)>>),
                                Kid("exported", <<Identifier(s.name, line)>>)>>)>>)>>)
      [] s.kind = "exportDefault" ->
            Node("ExportDefaultDeclaration", "", line,
                 <<Kid("declaration", <<Identifier(s.name, line)>>)>>)

\* A statement neither parser accepts: export default before const, let or var.
Unparsable(s) == s.kind = "var" /\ s.exp = "default"

\* The extensions analyzeFile hands to the TypeScript parser.
TsExts == {".ts", ".tsx"}

\* tsParse / babelParse as analyzeFile calls them.  Called without the loc
\* option the TypeScript parser returns nodes that carry no loc (line 0 here)
\* and its root is the Program; the Babel parser keeps loc and wraps the
\* Program in a File node.  Neither sets parent pointers.
Parse(stmts, ext) ==
    IF \E i \in 1..Len(stmts) : Unparsable(stmts[i])
    THEN [ok |-> FALSE, ast |-> Node("", "", 0, <<>>)]
    ELSE LET ln(i) == IF ext \in TsExts THEN 0 ELSE i
             program == Node("Program", "", ln(1),
                             <<Kid("body", [i \in 1..Len(stmts) |-> StmtNode(stmts[i], ln(i))])>>)
         IN [ok |-> TRUE,
             ast |-> IF ext \in TsExts THEN program
                     ELSE Node("File", "", 1, <<Kid("program", <<program>>)>>)]

\* isExported of ast-analyzer.ts: the walk up the parent pointers.
isExported(node) ==
    Has(node.up, "ExportNamedDeclaration") \/ Has(node.up, "ExportDefaultDeclaration")

EmptyResult == [definitions |-> <<>>, usages |-> <<>>, exports |-> <<>>, imports |-> <<>>]

RECURSIVE AddAll(_, _)
AddAll(seq, xs) == IF Len(xs) = 0 THEN seq ELSE AddAll(AddUnique(seq, Head(xs)), Tail(xs))

\* The result after two successive pieces of a traversal.
Then(r1, r2) ==
    [definitions |-> r1.definitions \o r2.definitions,
     usages |-> r1.usages \o r2.usages,
     exports |-> AddAll(r1.exports, r2.exports),
     imports |-> AddAll(r1.imports, r2.imports)]

ASTDefinition(name, type, line) == [name |-> name, type |-> type, line |-> line]

\* result.usages.push({name, line, context}) behind the filter of every handler.
UsageOfName(name, node) ==
    IF Filtered(name) THEN EmptyResult
    ELSE [EmptyResult EXCEPT !.usages = <<[name |-> name, line |-> LineOfNode(node)]>>]

\* handleCallExpression, handleMemberExpression, handleObjectProperty and
\* handleSpreadElement: a usage of node[key] when that is an Identifier.
UsageOfField(node, key) ==
    LET fs == Field(node, key)
    IN IF Len(fs) > 0 /\ fs[1].type = "Identifier" THEN UsageOfName(fs[1].name, node)
       ELSE EmptyResult

RECURSIVE handleImportSpecifiers(_, _)
\* handleImportDeclaration of ast-analyzer.ts over the specifiers.
handleImportSpecifiers(specifiers, node) ==
    IF Len(specifiers) = 0 THEN EmptyResult
    ELSE
      LET sp == Head(specifiers)
          name == IF sp.type = "ImportSpecifier"
                  THEN (IF FieldName(sp, "imported") # "" THEN FieldName(sp, "imported")
                        ELSE FieldName(sp, "local"))
                  ELSE FieldName(sp, "local")
          known == sp.type \in {"ImportSpecifier", "ImportDefaultSpecifier",
                                "ImportNamespaceSpecifier"}
          one == IF known /\ name # "" /\ ~Filtered(name)
                 THEN [EmptyResult EXCEPT
                         !.imports = <<name>>,
                         !.definitions = <<ASTDefinition(name, "import", LineOfNode(node))>>]
                 ELSE EmptyResult
      IN Then(one, handleImportSpecifiers(Tail(specifiers), node))

RECURSIVE handleExportSpecifiers(_)
\* handleExportNamedDeclaration, the branch of the export specifiers.
handleExportSpecifiers(specifiers) ==
    IF Len(specifiers) = 0 THEN EmptyResult
    ELSE
      LET sp == Head(specifiers)
          name == IF FieldName(sp, "exported") # "" THEN FieldName(sp, "exported")
                  ELSE FieldName(sp, "local")
          one == IF name # "" /\ ~Filtered(name)
                 THEN [EmptyResult EXCEPT !.exports = <<name>>]
                 ELSE EmptyResult
      IN Then(one, handleExportSpecifiers(Tail(specifiers)))

\* The definition handleFunctionDeclaration and handleVariableDeclaration push;
\* isLikelyComponent is called with an empty content.
Defined(name, node, type, f) ==
    IF name = "" \/ Filtered(name) THEN EmptyResult
    ELSE [EmptyResult EXCEPT
            !.definitions =
               <<ASTDefinition(name,
                               IF type # "variable" /\ isLikelyComponent(name, <<>>, f)
                               THEN "component" ELSE type,
                               LineOfNode(node))>>,
            !.exports = IF isExported(node) THEN <<name>> ELSE <<>>]

handleFunctionDeclaration(node, f) == Defined(FieldName(node, "id"), node, "function", f)

RECURSIVE handleVariableDeclaration(_, _, _)
\* handleVariableDeclaration of ast-analyzer.ts over the declarators.
handleVariableDeclaration(declarations, node, f) ==
    IF Len(declarations) = 0 THEN EmptyResult
    ELSE
      LET d == Head(declarations)
          init == Field(d, "init")
          type == IF Len(init) > 0
                     /\ init[1].type \in {"ArrowFunctionExpression", "FunctionExpression"}
                  THEN "function" ELSE "variable"
      IN Then(Defined(FieldName(d, "id"), node, type, f),
              handleVariableDeclaration(Tail(declarations), node, f))

\* handleJSXElement of ast-analyzer.ts.
handleJSXElement(node) ==
    LET oe == Field(node, "openingElement")
        nm == IF Len(oe) = 0 THEN <<>> ELSE Field(oe[1], "name")
    IN IF Len(nm) > 0 /\ nm[1].type = "JSXIdentifier" THEN UsageOfName(nm[1].name, node)
       ELSE EmptyResult

RECURSIVE traverseAST(_, _)
RECURSIVE traverseEach(_, _)
RECURSIVE traverseKids(_, _)
\* traverseAST of ast-analyzer.ts: the switch on the node type, then the loop
\* over every object-valued property of the node.
traverseAST(node, f) ==
    LET first(key) == Field(node, key)[1]
        handled ==
          CASE node.type = "Program" -> traverseEach(Field(node, "body"), f)
            [] node.type = "ImportDeclaration" ->
                  handleImportSpecifiers(Field(node, "specifiers"), node)
            [] node.type = "ExportNamedDeclaration" ->
                  IF Len(Field(node, "declaration")) > 0
                  THEN traverseAST(first("declaration"), f)
                  ELSE handleExportSpecifiers(Field(node, "specifiers"))
            [] node.type = "ExportDefaultDeclaration" ->
                  IF Len(Field(node, "declaration")) > 0
                  THEN traverseAST(first("declaration"), f)
                  ELSE EmptyResult
            [] node.type = "VariableDeclaration" ->
                  handleVariableDeclaration(Field(node, "declarations"), node, f)
            [] node.type = "FunctionDeclaration" -> handleFunctionDeclaration(node, f)
            [] node.type = "CallExpression" -> UsageOfField(node, "callee")
            [] node.type = "JSXElement" -> handleJSXElement(node)
            [] node.type \in {"JSXIdentifier", "Identifier"} -> UsageOfName(node.name, node)
            [] node.type = "MemberExpression" -> UsageOfField(node, "object")
            [] node.type = "ObjectProperty" -> UsageOfField(node, "value")
            [] node.type = "SpreadElement" -> UsageOfField(node, "argument")
            [] node.type = "TypeScript" -> traverseEach(Field(node, "typeAnnotation"), f)
            [] OTHER -> EmptyResult
    IN Then(handled, traverseKids(node.kids, f))

\* forEach(child => traverseAST(child))
traverseEach(nodes, f) ==
    IF Len(nodes) = 0 THEN EmptyResult
    ELSE Then(traverseAST(Head(nodes), f), traverseEach(Tail(nodes), f))

\* for (const key in node): every property in turn.
traverseKids(kids, f) ==
    IF Len(kids) = 0 THEN EmptyResult
    ELSE Then(traverseEach(Head(kids).nodes, f), traverseKids(Tail(kids), f))

\* A file analysis that keeps what the statements around a syntax error yield.
astAnalyzeFilePartial(f, stmts) ==
    traverseAST(Parse(SelectSeq(stmts, LAMBDA s : ~Unparsable(s)), f.ext).ast, f)

\* ASTAnalyzer.analyzeFile for a file that could be read: the empty result when
\* the parser throws, the traversal of the tree otherwise.
astAnalyzeFile(f, stmts) ==
    LET p == Parse(stmts, f.ext)
    IN IF p.ok THEN traverseAST(p.ast, f) ELSE EmptyResult

\* The definitions map after result.definitions.forEach for one file: one
\* entry per key, in insertion order, each with the list of its definitions.
RECURSIVE CollectDefinitions(_, _, _)
CollectDefinitions(map, relativePath, defs) ==
    IF Len(defs) = 0 THEN map
    ELSE
      LET def == Head(defs)
          key == LineKey(relativePath, def.name)
          at == {i \in 1..Len(map) : map[i].key = key}
          map2 == IF at = {} THEN Append(map, [key |-> key, defs |-> <<def>>])
                  ELSE [map EXCEPT ![CHOOSE i \in at : TRUE].defs = Append(@, def)]
      IN CollectDefinitions(map2, relativePath, Tail(defs))

RECURSIVE analyzeAllFiles(_, _, _)
\* analyzeAllFiles of ast-analyzer.ts over files, stmts[i] the statements of
\* files[i]; acc is the state of the four collections so far.
analyzeAllFiles(files, stmts, acc) ==
    IF Len(files) = 0 THEN acc
    ELSE
      LET relativePath == PathStr(Head(files))
          merged(result) ==
            [definitions |-> CollectDefinitions(acc.definitions, relativePath,
                                                result.definitions),
             usages |-> acc.usages \o
                 [i \in 1..Len(result.usages) |->
                     [name |-> result.usages[i].name, file |-> relativePath,
                      line |-> result.usages[i].line]],
             exports |-> AddAll(acc.exports, result.exports),
             imports |-> AddAll(acc.imports, result.imports)]
      IN analyzeAllFiles(Tail(files), Tail(stmts),
                         merged(astAnalyzeFile(Head(files), Head(stmts))))

\* The issues definitions.forEach of performASTAnalysis pushes for one key.
ASTIssues(entry, usages) ==
    LET parts == Split(entry.key, ":")
        filePath == parts[1]
        name == parts[2]
        isUsedAST == Len(UsagesOf(usages, name)) > 0
    IN IF isUsedAST THEN <<>>
       ELSE [i \in 1..Len(entry.defs) |->
               Issue(name, filePath, entry.defs[i].type, entry.defs[i].line)]

RECURSIVE AllASTIssues(_, _)
AllASTIssues(entries, usages) ==
    IF Len(entries) = 0 THEN <<>>
    ELSE ASTIssues(Head(entries), usages) \o AllASTIssues(Tail(entries), usages)

OfType(issues, type) == SelectSeq(issues, LAMBDA x : x.type = type)

\* definitionLines.set(key, def.line) for every definition, the last one staying.
RECURSIVE ASTLines(_)
ASTLines(entries) ==
    IF Len(entries) = 0 THEN <<>>
    ELSE [i \in 1..Len(Head(entries).defs) |->
             [key |-> Head(entries).key, line |-> Head(entries).defs[i].line]]
         \o ASTLines(Tail(entries))

\* ------------------------------------------------------------ whole runs

\* definitionLines after the calls definitionLines.set(key, line) in order.
RECURSIVE SetLines(_, _)
SetLines(map, sets) ==
    IF Len(sets) = 0 THEN map
    ELSE
      LET e == Head(sets)
          at == {i \in 1..Len(map) : map[i].key = e.key}
      IN SetLines(IF at = {} THEN Append(map, e)
                  ELSE [map EXCEPT ![CHOOSE i \in at : TRUE].line = e.line],
                  Tail(sets))

EmptyAnalysis ==
    [unusedComponents |-> <<>>, unusedFunctions |-> <<>>, unusedVariables |-> <<>>,
     unusedFiles |-> <<>>, unusedExports |-> <<>>, unusedImports |-> <<>>,
     totalIssues |-> 0]

\* The analyzer's fields a run works on.
Fields(analysis, usageMap, definitionLines) ==
    [analysis |-> analysis, usageMap |-> usageMap, definitionLines |-> definitionLines]

\* buildUsageMap of analyzer.ts over all files: a fresh map.
RECURSIVE buildUsageMap(_, _, _)
buildUsageMap(files, texts, srcDir) ==
    IF Len(files) = 0 THEN <<>>
    ELSE FileUsages(RelativeTo(srcDir, Head(files)), Head(texts))
             \o buildUsageMap(Tail(files), Tail(texts), srcDir)

\* analyzeFile of analyzer.ts for one file, on the fields st.
analyzeFile(f, content, srcDir, st) ==
    LET relativePath == RelativeTo(srcDir, f)
        push(definitions, u) ==
          [st EXCEPT
             !.definitionLines = SetLines(@, definitions.lines),
             !.analysis.unusedComponents = @ \o u.unusedComponents,
             !.analysis.unusedFunctions = @ \o u.unusedFunctions,
             !.analysis.unusedVariables = @ \o u.unusedVariables,
             !.analysis.unusedImports = @ \o u.unusedImports]
        check(definitions) ==
          push(definitions,
               checkUnusedDefinitions(definitions, relativePath, content, st.usageMap))
    IN check(LexDefinitions(f, content))

RECURSIVE analyzeFilesSeenSoFar(_, _, _, _)
\* A loop that judges each file against the occurrences of the files up to
\* it, leaving out those of the files that come after.
analyzeFilesSeenSoFar(files, texts, srcDir, st) ==
    IF Len(files) = 0 THEN st
    ELSE LET later == {RelativeTo(srcDir, files[i]) : i \in 2..Len(files)}
             seen == SelectSeq(st.usageMap, LAMBDA u : u.file \notin later)
             next(r) == analyzeFilesSeenSoFar(Tail(files), Tail(texts), srcDir,
                                              [r EXCEPT !.usageMap = st.usageMap])
         IN next(analyzeFile(Head(files), Head(texts), srcDir,
                             [st EXCEPT !.usageMap = seen]))

RECURSIVE analyzeFiles(_, _, _, _)
\* this.allFiles.forEach(file => this.analyzeFile(file))
analyzeFiles(files, texts, srcDir, st) ==
    IF Len(files) = 0 THEN st
    ELSE analyzeFiles(Tail(files), Tail(texts), srcDir,
                      analyzeFile(Head(files), Head(texts), srcDir, st))

RECURSIVE performRegexAnalysisAsDiscovered(_, _, _, _)
\* A lexical pass that judges each file as soon as its own occurrences are in
\* the usage index, before those of the files discovered after it.
performRegexAnalysisAsDiscovered(files, texts, srcDir, st) ==
    IF Len(files) = 0 THEN st
    ELSE performRegexAnalysisAsDiscovered(
             Tail(files), Tail(texts), srcDir,
             analyzeFile(Head(files), Head(texts), srcDir,
                         [st EXCEPT !.usageMap =
                              @ \o FileUsages(RelativeTo(srcDir, Head(files)), Head(texts))]))

\* performRegexAnalysis of analyzer.ts.
performRegexAnalysis(files, texts, srcDir, st) ==
    analyzeFiles(files, texts, srcDir,
                 [st EXCEPT !.usageMap = buildUsageMap(files, texts, srcDir)])

\* performASTAnalysis of analyzer.ts.
performASTAnalysis(files, stmts, st) ==
    LET push(astResults, issues) ==
          [st EXCEPT
             !.usageMap = astResults.usages,
             !.definitionLines = SetLines(@, ASTLines(astResults.definitions)),
             !.analysis.unusedComponents = @ \o OfType(issues, "component"),
             !.analysis.unusedFunctions = @ \o OfType(issues, "function"),
             !.analysis.unusedVariables = @ \o OfType(issues, "variable"),
             !.analysis.unusedImports = @ \o OfType(issues, "import")]
        report(astResults) ==
          push(astResults, AllASTIssues(astResults.definitions, astResults.usages))
    IN report(analyzeAllFiles(files, stmts, EmptyResult))

\* A run whose unused-file pass lists a file only when the usage index holds
\* no occurrence recorded in another file.
RunOnFilesByIndex(mode, files, stmts, srcDir, st) ==
    LET texts == [i \in 1..Len(stmts) |-> TextOf(stmts[i])]
        s1 == IF mode = "ast" THEN performASTAnalysis(files, stmts, st)
              ELSE performRegexAnalysis(files, texts, srcDir, st)
        unused == SelectSeq(findUnusedFiles(files, texts, srcDir, {}),
                            LAMBDA u : \A n \in 1..Len(s1.usageMap) :
                                          s1.usageMap[n].file = u.path)
        s2 == [s1 EXCEPT !.analysis.unusedFiles = @ \o unused]
    IN [s2 EXCEPT !.analysis = generateDeadCodeReport(@)]

\* findDeadCode of analyzer.ts when every file can be read (and its size
\* taken): the strategy, the
\* unused-file pass and the report, on the fields st.
RunOn(mode, files, stmts, srcDir, st) ==
    LET texts == [i \in 1..Len(stmts) |-> TextOf(stmts[i])]
        s1 == IF mode = "ast" THEN performASTAnalysis(files, stmts, st)
              ELSE performRegexAnalysis(files, texts, srcDir, st)
        s2 == [s1 EXCEPT !.analysis.unusedFiles = @ \o findUnusedFiles(files, texts, srcDir, {})]
    IN [s2 EXCEPT !.analysis = generateDeadCodeReport(@)]

\* ---------------------------------------------------------- state machine

\* The import path the modelled import statements name: './helper'.
HelperSpell == <<".", "/", "helper">>

\* The statements a modelled file is made of.
Statements ==
    { FuncDecl("foo", ""), FuncDecl("foo", "export"), FuncDecl("div", ""),
      VarDecl("foo", "", "const", "lit"), VarDecl("foo", "export", "let", "lit"),
      VarDecl("foo", "default", "const", "lit"),
      ImportDefault("foo", HelperSpell),
      CallStmt("foo"), CallStmt("x") }

\* The contents of a file: at most n statements.
Contents(n) == UNION {[1..k -> Statements] : k \in 0..n}

RECURSIVE TotalStmts(_)
TotalStmts(fs) == IF Len(fs) = 0 THEN 0 ELSE Len(Head(fs)) + TotalStmts(Tail(fs))

\* The file sets: one content per file of GlobFiles, MaxStmts statements in all.
FileSets ==
    {fs \in [1..Len(GlobFiles) -> Contents(MaxStmts)] : TotalStmts(fs) <= MaxStmts}

Modes == {"ast", "regex"}

\* DEFAULT_CONFIG.analysisMode of config-loader.ts.
DefaultMode == "ast"

\* a || b on strings
OrElse(a, b) == IF a # "" THEN a ELSE b

VARIABLES
    files,           \* the statements of each file of GlobFiles, as they are on disk
    unreadable,      \* the files fs.readFileSync fails on
    config,          \* this.config
    analysis,        \* this.analysis
    allFiles,        \* this.allFiles
    usageMap,        \* this.usageMap
    definitionLines, \* this.definitionLines
    status,          \* "new", or how the last findDeadCode ended: "done", "aborted"
    runs,            \* the calls of findDeadCode on this analyzer
    scanned,         \* the file contents the last completed run read
    previous,        \* what the analyzer before this one last scanned and reported
    call             \* the last direct call of an exported function: its name,
                     \* its arguments and what it returned

vars == <<files, unreadable, config, analysis, allFiles, usageMap, definitionLines,
          status, runs, scanned, previous, call>>

\* No function has been called directly.
NoCall == [fn |-> "", args |-> <<>>, result |-> <<>>]

\* The paths of a list of unused files.
PathsOf(unusedFiles) == {unusedFiles[i].path : i \in 1..Len(unusedFiles)}

NoPrevious == [valid |-> FALSE, files |-> <<>>, unusedFiles |-> {}]

\* The fields the constructor of DeadCodeAnalyzer sets; the options and the
\* configuration file may each name a mode or leave it out ("").
Constructed(optMode, fileMode) ==
    /\ config' = [srcDir |-> DefaultSrcDir,
                  analysisMode |-> OrElse(optMode, OrElse(fileMode, DefaultMode))]
    /\ analysis' = EmptyAnalysis
    /\ allFiles' = <<>>
    /\ usageMap' = <<>>
    /\ definitionLines' = <<>>
    /\ status' = "new"
    /\ runs' = 0

\* A freshly constructed analyzer over some file set, of which at most one file
\* cannot be read.
Init ==
    /\ files \in FileSets
    /\ unreadable \in {{}} \cup {{i} : i \in 1..Len(GlobFiles)}
    /\ config \in [srcDir : {DefaultSrcDir}, analysisMode : Modes]
    /\ analysis = EmptyAnalysis
    /\ allFiles = <<>>
    /\ usageMap = <<>>
    /\ definitionLines = <<>>
    /\ status = "new"
    /\ runs = 0
    /\ scanned = <<>>
    /\ previous = NoPrevious
    /\ call = NoCall

\* new DeadCodeAnalyzer(config): a new analyzer takes the place of the old one,
\* whose last completed first run is kept for comparison.
Construct(optMode, fileMode) ==
    /\ runs > 0
    /\ Constructed(optMode, fileMode)
    /\ previous' = IF status = "done" /\ runs = 1
                   THEN [valid |-> TRUE, files |-> scanned,
                         unusedFiles |-> PathsOf(analysis.unusedFiles)]
                   ELSE NoPrevious
    /\ scanned' = <<>>
    /\ UNCHANGED <<files, unreadable, call>>

\* Another program appends one statement to a file on disk.
WriteStmt(i, s) ==
    /\ TotalStmts(files) < MaxStmts
    /\ files' = [files EXCEPT ![i] = Append(@, s)]
    /\ UNCHANGED <<unreadable, config, analysis, allFiles, usageMap, definitionLines,
                   status, runs, scanned, previous, call>>

\* findDeadCode(): the file list is globbed; the first read of a file that
\* cannot be read throws out of the call before any other field is assigned.
FindDeadCode ==
    /\ runs < MaxRuns
    /\ runs' = runs + 1
    /\ allFiles' = GlobFiles
    /\ IF unreadable # {}
       THEN /\ status' = "aborted"
            /\ UNCHANGED <<analysis, usageMap, definitionLines, scanned>>
       ELSE LET assign(st) ==
                    /\ analysis' = st.analysis
                    /\ usageMap' = st.usageMap
                    /\ definitionLines' = st.definitionLines
            IN /\ assign(RunOn(config.analysisMode, GlobFiles, files, config.srcDir,
                               Fields(analysis, usageMap, definitionLines)))
               /\ status' = "done"
               /\ scanned' = files
    /\ UNCHANGED <<files, unreadable, config, previous, call>>

Next ==
    \/ \E optMode \in Modes \cup {""}, fileMode \in Modes \cup {""} :
          Construct(optMode, fileMode)
    \/ FindDeadCode
    \/ \E i \in 1..Len(GlobFiles), s \in Statements : WriteStmt(i, s)

Spec == Init /\ [][Next]_vars

\* ------------------------------------------------- direct function calls

\* The exported functions called on their own, on arguments drawn from the sets
\* below; no analyzer runs meanwhile.
Idle ==
    /\ files = [i \in 1..Len(GlobFiles) |-> <<>>]
    /\ unreadable = {}
    /\ config = [srcDir |-> DefaultSrcDir, analysisMode |-> DefaultMode]
    /\ analysis = EmptyAnalysis
    /\ allFiles = <<>>
    /\ usageMap = <<>>
    /\ definitionLines = <<>>
    /\ status = "new"
    /\ runs = 0
    /\ scanned = <<>>
    /\ previous = NoPrevious

StaysIdle ==
    UNCHANGED <<files, unreadable, config, analysis, allFiles, usageMap,
                definitionLines, status, runs, scanned, previous>>

\* The deepest directory of a path given to a function directly.
MaxDepth == 2

DirNames == {"src", "app", "pages", "api", "ui"}

Dirs == UNION {[1..k -> DirNames] : k \in 0..MaxDepth}

\* File names: entry-point names of both routers and ordinary ones.
FileNames ==
    [base : {"page", "layout", "route", "middleware", "_app", "_document", "widget", "helper"},
     ext : {".tsx", ".ts"}]

\* The paths, relative to the working directory.
Paths == {[dir |-> d, base |-> n.base, ext |-> n.ext] : d \in Dirs, n \in FileNames}

\* isNextJsEntryPoint(filePath)
CallIsNextJsEntryPoint(f) ==
    /\ call.fn = ""
    /\ call' = [fn |-> "isNextJsEntryPoint", args |-> [filePath |-> f],
                result |-> isNextJsEntryPoint(f)]
    /\ StaysIdle

\* The JavaScript values a setting can hold: undefined, null, a number, a
\* string, an array of strings; an object holds the three settings.
Undefined == [t |-> "undefined"]

JsNull == [t |-> "null"]

JsNumber == [t |-> "number"]

Str(s) == [t |-> "string", v |-> s]

Arr(a) == [t |-> "array", v |-> a]

Obj(srcDir, ignorePatterns, analysisMode) ==
    [t |-> "object", srcDir |-> srcDir, ignorePatterns |-> ignorePatterns,
     analysisMode |-> analysisMode]

\* {} as ConfigFileOptions
EmptyObject == Obj(Undefined, Undefined, Undefined)

\* ToBoolean of the values above (the number of the model is not zero).
Truthy(x) == IF x.t = "string" THEN x.v # "" ELSE x.t \notin {"undefined", "null"}

\* A disjunction that prefers its second operand.
OrSecond(a, b) == IF Truthy(b) THEN b ELSE a

\* a || b
Or(a, b) == IF Truthy(a) THEN a ELSE b

\* x?.key, and x.key for x that is neither null nor undefined: a property of
\* an object, undefined on a number, a string or an array.
Prop(x, key) ==
    IF x.t # "object" THEN Undefined
    ELSE CASE key = "srcDir" -> x.srcDir
           [] key = "ignorePatterns" -> x.ignorePatterns
           [] key = "analysisMode" -> x.analysisMode

\* DEFAULT_CONFIG of config-loader.ts.
DEFAULT_CONFIG ==
    [srcDir |-> Str("src"),
     ignorePatterns |-> Arr(<<"**/node_modules/**", "**/.next/**", "**/dist/**",
                              "**/build/**", "**/*.test.*", "**/*.spec.*",
                              "**/__tests__/**", "**/__mocks__/**">>),
     analysisMode |-> Str("ast")]

\* The configuration file loadConfig finds: none, one that cannot be read, one
\* whose text JSON.parse rejects, or one whose text JSON.parse turns into value.
NoFile == [state |-> "none"]

UnreadableFile == [state |-> "unreadable"]

InvalidFile == [state |-> "invalid"]

ParsedFile(value) == [state |-> "parsed", value |-> value]

\* loadConfig of config-loader.ts: whether it threw, what it warned and logged,
\* and the configuration it returned.  Reading a property of null throws.
loadConfig(file) ==
    LET exists == file.state # "none"
        failed == file.state \in {"unreadable", "invalid"}
        configFile == IF file.state = "parsed" THEN file.value ELSE EmptyObject
    IN IF configFile.t = "null"
       THEN [threw |-> TRUE, warned |-> FALSE, loaded |-> TRUE]
       ELSE [threw |-> FALSE, warned |-> failed, loaded |-> exists /\ ~failed,
             config |->
                [srcDir |-> Or(Prop(configFile, "srcDir"), DEFAULT_CONFIG.srcDir),
                 ignorePatterns |-> Or(Prop(configFile, "ignorePatterns"),
                                       DEFAULT_CONFIG.ignorePatterns),
                 analysisMode |-> Or(Prop(configFile, "analysisMode"),
                                     DEFAULT_CONFIG.analysisMode)]]

\* this.config of the constructor of DeadCodeAnalyzer, which DeadCodeFinder
\* hands its argument to.
AnalyzerConfigOf(options, file) ==
    LET merged(fileConfig) ==
          IF fileConfig.threw THEN [threw |-> TRUE]
          ELSE [threw |-> FALSE,
                config |->
                   [srcDir |-> Or(Prop(options, "srcDir"), fileConfig.config.srcDir),
                    ignorePatterns |-> Or(Prop(options, "ignorePatterns"),
                                          fileConfig.config.ignorePatterns),
                    analysisMode |-> Or(Prop(options, "analysisMode"),
                                        fileConfig.config.analysisMode)]]
    IN merged(loadConfig(file))

\* The scan command of the CLI.  commander hands its action the options: one
\* that was not given is undefined, but for the mode, which is declared with
\* the default 'ast'.
scan(argv, file) ==
    LET options ==
          [src |-> argv.src, ignore |-> argv.ignore,
           mode |-> IF argv.mode = Undefined THEN Str("ast") ELSE argv.mode]
    IN AnalyzerConfigOf(
           Obj(options.src,
               IF Truthy(options.ignore) /\ Len(options.ignore.v) > 0
               THEN options.ignore ELSE Undefined,
               options.mode),
           file)

\* The settings a caller or the command line passes, and the files on disk.
CallerModes == {Undefined, Str("ast"), Str("regex")}

CallerOptions ==
    {Undefined} \cup
    {Obj(d, i, m) : d \in {Undefined, Str("lib")},
                    i \in {Undefined, Arr(<<"**/gen/**">>)}, m \in CallerModes}

CommandLines ==
    [src : {Undefined, Str("lib")},
     ignore : {Undefined, Arr(<<"**/gen/**">>)},
     mode : CallerModes]

ConfigFiles ==
    {NoFile, UnreadableFile, InvalidFile}
    \cup {ParsedFile(v) : v \in {JsNull, JsNumber, Str("app"), Arr(<<>>)}}
    \cup {ParsedFile(Obj(d, i, m)) :
              d \in {Undefined, Str("app")},
              i \in {Undefined, Arr(<<>>), Arr(<<"**/tmp/**">>)}, m \in CallerModes}

\* loadConfig()
CallLoadConfig(file) ==
    /\ call.fn = ""
    /\ call' = [fn |-> "loadConfig", args |-> [file |-> file], result |-> loadConfig(file)]
    /\ StaysIdle

\* new DeadCodeFinder(options), new DeadCodeAnalyzer(options)
CallConstructor(options, file) ==
    /\ call.fn = ""
    /\ call' = [fn |-> "DeadCodeAnalyzer", args |-> [options |-> options, file |-> file],
                result |-> AnalyzerConfigOf(options, file)]
    /\ StaysIdle

\* find-dead-code scan ...
CallScan(argv, file) ==
    /\ call.fn = ""
    /\ call' = [fn |-> "scan", args |-> [argv |-> argv, file |-> file],
                result |-> scan(argv, file)]
    /\ StaysIdle

\* The names, the usage maps, the file texts and the exported sets isUsed and
\* isLikelyComponent are called on.  A definition comes from the text without
\* its comments, so the text itself may hold its name only inside a longer word.
CalledNames == {"foo", "useFoo", "Foo"}

DefiningFile == "a.ts"

MaxUsages == 2

UsageRecords == [name : CalledNames \ {"Foo"}, file : {DefiningFile, "helper.ts"}, line : {1}]

UsageMaps == UNION {[1..k -> UsageRecords] : k \in 0..MaxUsages}

UseClient == <<"\"", "use", " ", "client", "\"">>

Contents4(n) ==
    { <<n, "(", ")">>, <<"<", n, " ", "/", ">">>, <<"return", " ", n>>,
      <<"export", " ", "default", " ", n \o "Bar">> }

CalledContents == {<<>>, UseClient} \cup UNION {Contents4(n) : n \in CalledNames}

ExportSets == {<<>>, <<"foo">>, <<"useFoo">>, <<"foo", "useFoo">>}

\* The paths isLikelyComponent is called on: a file in the working directory or
\* in a directory of it.
ComponentPaths == {f \in Paths : Len(f.dir) < MaxDepth}

\* isUsed(name) inside checkUnusedDefinitions(definitions, filePath, content)
CallIsUsed(name, map, content, exports) ==
    /\ call.fn = ""
    /\ call' = [fn |-> "isUsed",
                args |-> [name |-> name, usageMap |-> map, filePath |-> DefiningFile,
                          content |-> content, exports |-> exports],
                result |-> isUsed(name, map, DefiningFile, content,
                                  [EmptyDefinitions EXCEPT !.exports = exports])]
    /\ StaysIdle

\* isLikelyComponent(name, content, filePath)
CallIsLikelyComponent(name, content, f) ==
    /\ call.fn = ""
    /\ call' = [fn |-> "isLikelyComponent",
                args |-> [name |-> name, content |-> content, filePath |-> f],
                result |-> isLikelyComponent(name, content, f)]
    /\ StaysIdle

\* The statements of the files ASTAnalyzer.analyzeFile is called on: imports of
\* every form, declarations plain and exported with names of either case, and
\* calls that the component heuristic looks for in a text.
AnalyzedStatements ==
    { ImportDefault("bar", HelperSpell), ImportNamed("bar", HelperSpell),
      ImportAs("foo", "bar", HelperSpell), ImportAll("bar", HelperSpell),
      CallStmt("memo"), CallStmt("foo") }
    \cup {FuncDecl(n, e) : n \in {"foo", "Foo"}, e \in {"", "export", "default"}}
    \cup {VarDecl(n, e, "const", i) : n \in {"foo", "Foo"}, e \in {"", "export"},
                                      i \in {"lit", "arrow"}}

MaxAnalyzed == 2

AnalyzedContents == UNION {[1..k -> AnalyzedStatements] : k \in 1..MaxAnalyzed}

\* An ordinary TypeScript file, an ordinary JavaScript file, an entry point.
AnalyzedPaths ==
    { FileA, [dir |-> <<"src">>, base |-> "a", ext |-> ".js"],
      [dir |-> <<"src", "app">>, base |-> "page", ext |-> ".tsx"] }

\* ASTAnalyzer.analyzeFile(filePath) on a file with the statements given.
CallAnalyzeFile(f, stmts) ==
    /\ call.fn = ""
    /\ call' = [fn |-> "analyzeFile", args |-> [filePath |-> f, stmts |-> stmts],
                result |-> astAnalyzeFile(f, stmts)]
    /\ StaysIdle

\* The text of a statement as it stands ("code"), behind // on its line
\* ("line"), or inside /* */ ("block").
Written(style, stmt) ==
    LET text == StmtText(stmt)
    IN IF style = "line" THEN <<"/", "/", " ">> \o text
       ELSE IF style = "block"
       THEN <<"/", "*", " ">> \o SubSeq(text, 1, Len(text) - 1) \o <<" ", "*", "/", "\n">>
       ELSE text

Styles == {"code", "line", "block"}

\* The statements written in either way: declarations of every category and
\* imports.
WrittenStatements ==
    { FuncDecl("foo", ""), FuncDecl("Foo", "export"), VarDecl("foo", "", "const", "arrow"),
      VarDecl("foo", "export", "const", "lit"), ImportDefault("foo", HelperSpell),
      ImportNamed("foo", HelperSpell), ImportAll("foo", HelperSpell) }

\* What may follow in the file: nothing, or a call of something else.
Followers == {<<>>, StmtText(CallStmt("x"))}

\* performRegexAnalysis of a fresh analyzer over the one file src/a.ts.
CallPerformRegexAnalysis(style, stmt, rest) ==
    /\ call.fn = ""
    /\ call' = [fn |-> "performRegexAnalysis",
                args |-> [style |-> style, stmt |-> stmt,
                          content |-> Written(style, stmt) \o rest],
                result |-> performRegexAnalysis(<<FileA>>, <<Written(style, stmt) \o rest>>,
                                                DefaultSrcDir,
                                                Fields(EmptyAnalysis, <<>>, <<>>))]
    /\ StaysIdle

\* The file sets the unused-file pass is called on: each file empty, a call,
\* or an exported function.
PassContents == {<<>>, <<CallStmt("x")>>, <<FuncDecl("foo", "export")>>}

PassFileSets == [1..Len(GlobFiles) -> PassContents]

\* The sets of files fs.statSync may throw on.
NoStatSets == SUBSET {GlobFiles[i] : i \in 1..Len(GlobFiles)}

\* findUnusedFiles and generateDeadCodeReport, the last two steps of
\* findDeadCode, on a fresh analyzer whose allFiles is GlobFiles.
CallFindUnusedFiles(stmts, noStat) ==
    LET texts == [i \in 1..Len(stmts) |-> TextOf(stmts[i])]
    IN /\ call.fn = ""
       /\ call' = [fn |-> "findUnusedFiles",
                   args |-> [stmts |-> stmts, noStat |-> noStat],
                   result |->
                     [analysis |->
                        generateDeadCodeReport(
                          [EmptyAnalysis EXCEPT !.unusedFiles =
                              findUnusedFiles(GlobFiles, texts, DefaultSrcDir, noStat)]),
                      warned |-> statWarnings(GlobFiles, texts, DefaultSrcDir, noStat)]]
       /\ StaysIdle

\* The call has returned and its result has been looked at.
Return ==
    /\ call.fn # ""
    /\ call' = NoCall
    /\ StaysIdle

InitCalls == Idle /\ call = NoCall

NextCalls ==
    \/ \E f \in Paths : CallIsNextJsEntryPoint(f)
    \/ \E file \in ConfigFiles : CallLoadConfig(file)
    \/ \E options \in CallerOptions, file \in ConfigFiles : CallConstructor(options, file)
    \/ \E argv \in CommandLines, file \in ConfigFiles : CallScan(argv, file)
    \/ \E name \in CalledNames \ {"Foo"}, map \in UsageMaps, content \in CalledContents,
           exports \in ExportSets : CallIsUsed(name, map, content, exports)
    \/ \E name \in CalledNames, content \in CalledContents, f \in ComponentPaths :
           CallIsLikelyComponent(name, content, f)
    \/ \E f \in AnalyzedPaths, stmts \in AnalyzedContents : CallAnalyzeFile(f, stmts)
    \/ \E style \in Styles, stmt \in WrittenStatements, rest \in Followers :
           CallPerformRegexAnalysis(style, stmt, rest)
    \/ \E stmts \in PassFileSets, noStat \in NoStatSets : CallFindUnusedFiles(stmts, noStat)
    \/ Return

SpecCalls == InitCalls /\ [][NextCalls]_vars

\* ------------------------------------------------------------------ claims

\* The last call of findDeadCode completed, was the first on a fresh analyzer,
\* and the files are still what it read.
FirstRunDone == status = "done" /\ runs = 1 /\ scanned = files

\* The path under which the unused-file pass lists file i.
ListedPath(i) == RelativeTo(config.srcDir, GlobFiles[i])

\* Statement k of file i is the only place of the file set its name occurs in.
LoneStatement(i, k) ==
    \A j \in 1..Len(files) : \A h \in 1..Len(files[j]) :
        (j # i \/ h # k) => files[j][h].name # files[i][k].name

Reported(list, name, paths) ==
    \E n \in 1..Len(list) : list[n].name = name /\ list[n].file \in paths

\* C1: under the lexical strategy, when a file declares function foo(){} and
\* foo occurs nowhere else in the file set, the completed run lists foo of that
\* file in unusedFunctions.
C1_LoneFunctionReported ==
    (FirstRunDone /\ config.analysisMode = "regex") =>
        \A i \in 1..Len(files) : \A k \in 1..Len(files[i]) :
            (files[i][k] = FuncDecl("foo", "") /\ LoneStatement(i, k)) =>
                Reported(analysis.unusedFunctions, "foo", {ListedPath(i)})

\* The list the claim expects a lone definition of a statement in.
KindList(s) ==
    IF s.kind = "func" THEN analysis.unusedFunctions \o analysis.unusedComponents
    ELSE IF s.kind = "var" THEN analysis.unusedVariables
    ELSE analysis.unusedImports

\* C2: under the structural strategy, a definition of any kind whose name
\* occurs nowhere but in its own declaration is listed in the unused list of
\* its kind, for its file (under either spelling of the file's path).
C2_LoneDefinitionReported ==
    (FirstRunDone /\ config.analysisMode = "ast") =>
        \A i \in 1..Len(files) : \A k \in 1..Len(files[i]) :
            (/\ files[i][k].kind \in {"func", "var", "importDefault"}
             /\ ~Unparsable(files[i][k])
             /\ ~Filtered(files[i][k].name)
             /\ LoneStatement(i, k)) =>
                Reported(KindList(files[i][k]), files[i][k].name,
                         {ListedPath(i), PathStr(GlobFiles[i])})

\* C3: a second findDeadCode on the same analyzer over an unchanged file set
\* leaves the result of the first: all lists and totalIssues are identical.
C3_SecondRunIdempotent ==
    [][(status = "done" /\ scanned = files /\ status' = "done" /\ runs' = runs + 1
        /\ files' = files) => analysis' = analysis]_vars

\* File o holds an import-from statement whose path is a candidate spelling of
\* file i.
ImportsBySpelling(o, i) ==
    \E k \in 1..Len(files[o]) :
        /\ files[o][k].kind \in {"importDefault", "importNamed"}
        /\ LET spelled == Concat(files[o][k].spell, 1, Len(files[o][k].spell))
               paths == possibleImportPaths(GlobFiles[i], config.srcDir)
           IN \E n \in 1..Len(paths) : paths[n] = spelled

ImportedByAnother(i) == \E o \in 1..Len(files) : o # i /\ ImportsBySpelling(o, i)

\* C4: a file that another file imports by one of its candidate spellings is
\* never placed in unusedFiles.
C4_ImportedNeverListed ==
    FirstRunDone =>
        \A i \in 1..Len(files) :
            ImportedByAnother(i) => ListedPath(i) \notin PathsOf(analysis.unusedFiles)

\* A statement that introduces an export, of any form.
IsExportStmt(s) == s.exp # "" \/ s.kind \in {"exportList", "exportDefault"}

ConventionalDirs == {"utils", "lib", "helpers", "services", "hooks", "components"}

\* The six conditions of the unused-file verdict, as the claim words them.
SixConditions(i) ==
    /\ ~ImportedByAnother(i)
    /\ ~isNextJsEntryPoint(GlobFiles[i])
    /\ ~\E k \in 1..Len(files[i]) : IsExportStmt(files[i][k])
    /\ ~isMainFile(GlobFiles[i])
    /\ ~isConfigFile(GlobFiles[i])
    /\ ~\E d \in 1..Len(GlobFiles[i].dir) : GlobFiles[i].dir[d] \in ConventionalDirs

\* C5: a file is in unusedFiles exactly when all six conditions hold together.
C5_ListedIffSixConditions ==
    FirstRunDone =>
        \A i \in 1..Len(files) :
            (ListedPath(i) \in PathsOf(analysis.unusedFiles)) <=> SixConditions(i)

\* C6: when a file the previous analyzer listed as unused gets one export
\* statement appended and a fresh analyzer runs, that file leaves unusedFiles
\* and the membership of every other file is as before.
C6_ExportRemovesOnlyThatFile ==
    (FirstRunDone /\ previous.valid) =>
        \A i \in 1..Len(files) : \A s \in Statements :
            (/\ IsExportStmt(s)
             /\ files = [previous.files EXCEPT ![i] = Append(@, s)]
             /\ ListedPath(i) \in previous.unusedFiles) =>
                PathsOf(analysis.unusedFiles) = previous.unusedFiles \ {ListedPath(i)}

\* C9: a file that cannot be read does not abort the run: findDeadCode
\* completes with a result.
C9_UnreadableFileSkipped ==
    (runs > 0 /\ unreadable # {}) => status = "done"

\* The usage indexes the monotonicity is checked from: the index of the last
\* run cut after each of its occurrences.
UsageIndexes == {SubSeq(usageMap, 1, k) : k \in 0..Len(usageMap)}

NamesOf(list) == {list[n].name : n \in 1..Len(list)}

RangeOf(seq) == {seq[n] : n \in 1..Len(seq)}

\* One more occurrence of a name, in the file at the given path.
OneMore(base, name, path) == Append(base, [name |-> name, file |-> path, line |-> 1])

\* Adding to base one occurrence of a name defined in file i, in file o, turns
\* no lexical verdict from used to unused and adds nothing to the lists
\* checkUnusedDefinitions pushes for file i.
LexicalMonotonic(i, o, base) ==
    LET f == GlobFiles[i]
        content == TextOf(scanned[i])
        path == RelativeTo(config.srcDir, f)
        defs == LexDefinitions(f, content)
        names == RangeOf(defs.components) \cup RangeOf(defs.functions)
                    \cup RangeOf(defs.variables) \cup RangeOf(defs.imports)
    IN \A name \in names :
         LET more == OneMore(base, name, RelativeTo(config.srcDir, GlobFiles[o]))
             was == checkUnusedDefinitions(defs, path, content, base)
             now == checkUnusedDefinitions(defs, path, content, more)
         IN /\ isUsed(name, base, path, content, defs)
                  => isUsed(name, more, path, content, defs)
            /\ NamesOf(now.unusedComponents) \subseteq NamesOf(was.unusedComponents)
            /\ NamesOf(now.unusedFunctions) \subseteq NamesOf(was.unusedFunctions)
            /\ NamesOf(now.unusedVariables) \subseteq NamesOf(was.unusedVariables)
            /\ NamesOf(now.unusedImports) \subseteq NamesOf(was.unusedImports)

\* The same for the structural verdicts on the definitions of file i.
StructuralMonotonic(i, o, base) ==
    LET entries == analyzeAllFiles(<<GlobFiles[i]>>, <<scanned[i]>>, EmptyResult).definitions
    IN \A e \in 1..Len(entries) :
         LET name == Split(entries[e].key, ":")[2]
             more == OneMore(base, name, PathStr(GlobFiles[o]))
         IN NamesOf(ASTIssues(entries[e], more)) \subseteq NamesOf(ASTIssues(entries[e], base))

\* C7: isUsed is monotonic in cross-file usages: under either strategy, one
\* more occurrence of a definition's name in another file never turns a used
\* verdict into unused; an entry can only leave the unused lists.
C7_UsageMonotonic ==
    status = "done" =>
        \A i \in 1..Len(scanned) : \A o \in 1..Len(scanned) : \A base \in UsageIndexes :
            o # i => LexicalMonotonic(i, o, base) /\ StructuralMonotonic(i, o, base)

\* A completed lexical run reported an import that one occurrence of its name in
\* another file takes off the list.
C7_Witness ==
    /\ FirstRunDone /\ config.analysisMode = "regex"
    /\ \E i \in 1..Len(files), o \in 1..Len(files) :
          /\ o # i
          /\ \E n \in 1..Len(analysis.unusedImports) :
                LET name == analysis.unusedImports[n].name
                IN /\ analysis.unusedImports[n].file = ListedPath(i)
                   /\ ~importUnused(name, OneMore(usageMap, name, ListedPath(o)),
                                    TextOf(files[i]))

\* A name the claim says is never recorded: a builtin, all digits, one letter,
\* or one that starts with a character no identifier starts with.
Excluded(name) ==
    \/ name \in BUILT_INS
    \/ (Len(name) > 0 /\ AllDigits(name))
    \/ (Len(name) = 1 /\ name \in LowerLetters \cup UpperLetters)
    \/ (Len(name) > 0 /\ ~IsIdentStart(FirstChar(name)))

\* The names the lexical strategy records for the files the last run read.
LexicalNames ==
    UNION {LET d == LexDefinitions(GlobFiles[i], TextOf(scanned[i]))
           IN RangeOf(d.components) \cup RangeOf(d.functions) \cup RangeOf(d.variables)
                 \cup RangeOf(d.imports) \cup RangeOf(d.exports)
                 \cup {Split(d.lines[n].key, ":")[2] : n \in 1..Len(d.lines)}
           : i \in 1..Len(scanned)}

\* The names the structural strategy records for the files the last run read.
StructuralNames ==
    LET r == analyzeAllFiles(GlobFiles, scanned, EmptyResult)
    IN UNION {NamesOf(r.definitions[e].defs) : e \in 1..Len(r.definitions)}
          \cup {Split(r.definitions[e].key, ":")[2] : e \in 1..Len(r.definitions)}
          \cup NamesOf(r.usages) \cup RangeOf(r.exports) \cup RangeOf(r.imports)

\* The names the analyzer holds after a run.
HeldNames ==
    NamesOf(usageMap) \cup NamesOf(analysis.unusedComponents)
        \cup NamesOf(analysis.unusedFunctions) \cup NamesOf(analysis.unusedVariables)
        \cup NamesOf(analysis.unusedImports) \cup NamesOf(analysis.unusedExports)
        \cup {Split(definitionLines[n].key, ":")[2] : n \in 1..Len(definitionLines)}

\* C8: no builtin or common-pattern name is recorded: after a run, under
\* either strategy, no definition, no exports or imports entry and no key of
\* the usage index has such a name.
C8_NoExcludedNameRecorded ==
    status = "done" =>
        \A name \in HeldNames \cup LexicalNames \cup StructuralNames : ~Excluded(name)

\* A completed run read a statement that names an excluded name and recorded
\* some usage.
C8_Witness ==
    /\ FirstRunDone
    /\ \E i \in 1..Len(files) : \E k \in 1..Len(files[i]) : Excluded(files[i][k].name)
    /\ Len(usageMap) > 0

\* The file part of a definitionLines key.
KeyFile(key) == Split(key, ":")[1]

\* C10: under the structural strategy a file whose parse fails contributes no
\* definitions, usages, exports or imports; the other files contribute what
\* they would without it; the unused-file pass and the report still happen.
C10_ParseFailureIsolated ==
    (FirstRunDone /\ config.analysisMode = "ast") =>
        \A i \in 1..Len(scanned) :
            ~Parse(scanned[i], GlobFiles[i].ext).ok =>
                LET without == [scanned EXCEPT ![i] = <<>>]
                    alone == RunOn("ast", GlobFiles, without, config.srcDir,
                                   Fields(EmptyAnalysis, <<>>, <<>>))
                    texts == [j \in 1..Len(scanned) |-> TextOf(scanned[j])]
                IN /\ astAnalyzeFile(GlobFiles[i], scanned[i]) = EmptyResult
                   /\ \A n \in 1..Len(usageMap) : usageMap[n].file # PathStr(GlobFiles[i])
                   /\ \A n \in 1..Len(definitionLines) :
                         KeyFile(definitionLines[n].key) # PathStr(GlobFiles[i])
                   /\ usageMap = alone.usageMap
                   /\ definitionLines = alone.definitionLines
                   /\ analysis.unusedComponents = alone.analysis.unusedComponents
                   /\ analysis.unusedFunctions = alone.analysis.unusedFunctions
                   /\ analysis.unusedVariables = alone.analysis.unusedVariables
                   /\ analysis.unusedImports = alone.analysis.unusedImports
                   /\ analysis.unusedFiles =
                         SortBySize(findUnusedFiles(GlobFiles, texts, config.srcDir, {}))
                   /\ analysis.totalIssues = Len(analysis.unusedFiles)
                         + Len(analysis.unusedComponents) + Len(analysis.unusedFunctions)
                         + Len(analysis.unusedVariables) + Len(analysis.unusedImports)

\* A completed structural run met a file that does not parse while another
\* file contributed usages.
C10_Witness ==
    /\ FirstRunDone /\ config.analysisMode = "ast"
    /\ \E i \in 1..Len(files) : ~Parse(files[i], GlobFiles[i].ext).ok
    /\ Len(usageMap) > 0

\* C11: isNextJsEntryPoint returns true for every path whose basename is
\* page.tsx, layout.ts, route.ts, middleware.ts, _app.tsx or _document.tsx, and
\* for every path with a directory named app or pages at any depth, the first
\* segment of the path included.
RoutingRoots == {"app", "pages"}

NamedEntryFiles ==
    {"page.tsx", "layout.ts", "route.ts", "middleware.ts", "_app.tsx", "_document.tsx"}

UnderRoutingRoot(f) == \E k \in 1..Len(f.dir) : f.dir[k] \in RoutingRoots

C11_EntryPointRecognised ==
    call.fn = "isNextJsEntryPoint" =>
        LET f == call.args.filePath
        IN (BaseName(f) \in NamedEntryFiles \/ UnderRoutingRoot(f)) => call.result

\* The three settings.
Settings == {"srcDir", "ignorePatterns", "analysisMode"}

\* What the configuration file supplies for a setting: undefined when there is
\* no file, when it cannot be read or parsed, or when it leaves the setting out.
FileSupplies(file, key) ==
    IF file.state = "parsed" THEN Prop(file.value, key) ELSE Undefined

DefaultOf(key) ==
    CASE key = "srcDir" -> DEFAULT_CONFIG.srcDir
      [] key = "ignorePatterns" -> DEFAULT_CONFIG.ignorePatterns
      [] key = "analysisMode" -> DEFAULT_CONFIG.analysisMode

SettingOf(cfg, key) ==
    CASE key = "srcDir" -> cfg.srcDir
      [] key = "ignorePatterns" -> cfg.ignorePatterns
      [] key = "analysisMode" -> cfg.analysisMode

\* The value precedence gives a setting: the caller's, else the file's, else
\* the default.
ByPrecedence(given, file, key) ==
    IF given # Undefined THEN given
    ELSE IF FileSupplies(file, key) # Undefined THEN FileSupplies(file, key)
    ELSE DefaultOf(key)

\* C12: for each of the three settings independently, a constructed analyzer
\* uses the caller's value when the caller supplies one, otherwise the
\* configuration file's value when the file supplies one, otherwise the
\* built-in default.
C12_ConfigurationPrecedence ==
    (call.fn = "DeadCodeAnalyzer" /\ ~call.result.threw) =>
        \A key \in Settings :
            SettingOf(call.result.config, key)
                = ByPrecedence(Prop(call.args.options, key), call.args.file, key)

\* An analyzer constructed with a source root of the caller's, ignore patterns
\* of the file's and the default strategy.
C12_Witness ==
    /\ call.fn = "DeadCodeAnalyzer" /\ ~call.result.threw
    /\ Prop(call.args.options, "srcDir") # Undefined
    /\ Prop(call.args.options, "ignorePatterns") = Undefined
    /\ FileSupplies(call.args.file, "ignorePatterns") # Undefined
    /\ Prop(call.args.options, "analysisMode") = Undefined
    /\ FileSupplies(call.args.file, "analysisMode") = Undefined
    /\ call.result.config.srcDir = Prop(call.args.options, "srcDir")
    /\ call.result.config.ignorePatterns = FileSupplies(call.args.file, "ignorePatterns")
    /\ call.result.config.analysisMode = DEFAULT_CONFIG.analysisMode

\* C13: scan without -m/--mode uses the strategy of the configuration file when
\* the file sets one (regex in particular), and ast only when neither the
\* command line nor the file gives a mode.
C13_ScanModeFallsBackToFile ==
    (call.fn = "scan" /\ ~call.result.threw /\ call.args.argv.mode = Undefined) =>
        call.result.config.analysisMode
            = ByPrecedence(Undefined, call.args.file, "analysisMode")

\* C14: a configuration file that exists but cannot be used (it cannot be read,
\* or its content does not parse as a configuration object) never aborts:
\* loadConfig warns, does not throw, and returns the default of every setting.
Unusable(file) ==
    \/ file.state \in {"unreadable", "invalid"}
    \/ file.state = "parsed" /\ file.value.t # "object"

C14_UnusableFileFallsBack ==
    (call.fn = "loadConfig" /\ Unusable(call.args.file)) =>
        /\ ~call.result.threw
        /\ call.result.warned
        /\ call.result.config = DEFAULT_CONFIG

\* The six rules of the decision list, on the arguments a of a call of isUsed.
RecordedUses(a) == {i \in 1..Len(a.usageMap) : a.usageMap[i].name = a.name}

UsedElsewhere(a) == \E i \in RecordedUses(a) : a.usageMap[i].file # a.filePath

ReferencedInText(a) == \E i \in 1..Len(a.content) : a.content[i] = a.name

DefaultExported(a) == Includes(TextStr(a.content), "export default " \o a.name)

ExportedWithoutUses(a) ==
    (\E i \in 1..Len(a.exports) : a.exports[i] = a.name) /\ RecordedUses(a) = {}

HookNamed(a) ==
    /\ Len(a.name) >= 4
    /\ StartsWith(a.name, "use")
    /\ CharAt(a.name, 4) \in UpperLetters

DecisionList(a) ==
    << [applies |-> UsedElsewhere(a), used |-> TRUE],
       [applies |-> ReferencedInText(a), used |-> TRUE],
       [applies |-> DefaultExported(a), used |-> TRUE],
       [applies |-> ExportedWithoutUses(a), used |-> FALSE],
       [applies |-> HookNamed(a), used |-> TRUE],
       [applies |-> TRUE, used |-> FALSE] >>

FirstMatch(rules) ==
    rules[CHOOSE i \in 1..Len(rules) :
              rules[i].applies /\ \A h \in 1..(i - 1) : ~rules[h].applies].used

\* C15: the verdict of isUsed is that of the six rules taken in order, the
\* first that applies winning; in particular an exported hook-named definition
\* without recorded usages that rules 1-3 do not match is not used.
C15_VerdictIsDecisionList ==
    call.fn = "isUsed" =>
        /\ call.result = FirstMatch(DecisionList(call.args))
        /\ (/\ HookNamed(call.args) /\ ExportedWithoutUses(call.args)
            /\ ~UsedElsewhere(call.args) /\ ~ReferencedInText(call.args)
            /\ ~DefaultExported(call.args)) => ~call.result

\* The exported hook without usages that only rule 4 decides.
C15_Witness ==
    /\ call.fn = "isUsed"
    /\ HookNamed(call.args) /\ ExportedWithoutUses(call.args)
    /\ ~UsedElsewhere(call.args) /\ ~ReferencedInText(call.args)
    /\ ~DefaultExported(call.args)
    /\ ~call.result

\* C16: isLikelyComponent is false for every name whose first character is not
\* an upper-case letter, whatever the content and the path, entry-point paths
\* and a "use client" directive included.
C16_LowerCaseNeverComponent ==
    (call.fn = "isLikelyComponent" /\ FirstChar(call.args.name) \notin UpperLetters)
        => ~call.result

\* A lower-case name in a file with the directive, on an entry-point path.
C16_Witness ==
    /\ call.fn = "isLikelyComponent"
    /\ FirstChar(call.args.name) \notin UpperLetters
    /\ call.args.content = UseClient
    /\ BaseName(call.args.filePath) = "page.tsx"
    /\ ~call.result

\* The definitions and the usages of a name that one structural analysis of
\* file i collects.
DefinitionsOf(i, name) ==
    SelectSeq(astAnalyzeFile(GlobFiles[i], files[i]).definitions,
              LAMBDA d : d.name = name)

OccurrencesOf(i, name) ==
    SelectSeq(astAnalyzeFile(GlobFiles[i], files[i]).usages,
              LAMBDA u : u.name = name)

\* File i is one parsable declaration of a function or a variable, plain or
\* under an export: one declaring node, one Identifier node naming it.
SingleDeclaration(i) ==
    /\ Len(files[i]) = 1
    /\ files[i][1].kind \in {"func", "var"}
    /\ ~Unparsable(files[i][1])
    /\ ~Filtered(files[i][1].name)

\* C17: the structural traversal handles every node once: a file that is a
\* single declaration, top-level or wrapped in an export, yields exactly one
\* Definition of the declared name and exactly one occurrence of it (that of
\* the one Identifier node of the declaration).
C17_EachNodeHandledOnce ==
    (FirstRunDone /\ config.analysisMode = "ast") =>
        \A i \in 1..Len(files) :
            SingleDeclaration(i) =>
                /\ Len(DefinitionsOf(i, files[i][1].name)) = 1
                /\ Len(OccurrencesOf(i, files[i][1].name)) = 1

\* The braces of the text before statement k of file i: opening minus closing.
RECURSIVE BraceDepth(_)
BraceDepth(text) ==
    IF Len(text) = 0 THEN 0
    ELSE BraceDepth(Tail(text))
         + (IF Head(text) = "{" THEN 1 ELSE IF Head(text) = "}" THEN -1 ELSE 0)

\* Statement k of file i is a variable binding that a variable template
\* matches, at a brace depth that is not positive, of a name that is neither
\* filtered nor a function or a component of the file.
TopLevelBinding(i, k) ==
    /\ files[i][k].kind = "var"
    /\ BraceDepth(TextOf(SubSeq(files[i], 1, k - 1))) <= 0
    /\ ~Filtered(files[i][k].name)
    /\ \A h \in 1..Len(files[i]) :
           files[i][h].kind = "func" => files[i][h].name # files[i][k].name

\* C18: under the lexical strategy a variable binding at a brace depth that is
\* not positive is recorded as a variable Definition of its file: after the run
\* the analyzer holds the line of the definition under the key (file, name).
C18_TopLevelBindingRecorded ==
    (FirstRunDone /\ config.analysisMode = "regex" /\ unreadable = {}) =>
        \A i \in 1..Len(files) : \A k \in 1..Len(files[i]) :
            TopLevelBinding(i, k) =>
                \E n \in 1..Len(definitionLines) :
                    definitionLines[n].key
                        = LineKey(PathStr(GlobFiles[i]), files[i][k].name)

\* The usage index with its n-th occurrence recorded once more.
RecordedAgain(base, n) == Append(base, base[n])

\* What checkUnusedDefinitions pushes for file i of the last run, from the
\* usage index given.
VerdictsOf(i, index) ==
    checkUnusedDefinitions(LexDefinitions(GlobFiles[i], TextOf(scanned[i])),
                           RelativeTo(config.srcDir, GlobFiles[i]),
                           TextOf(scanned[i]), index)

\* C19: the lexical verdicts, that on imports included, depend on which names
\* have a recorded occurrence and not on how many: recording any occurrence of
\* the usage index of a completed lexical run once more leaves every list that
\* checkUnusedDefinitions pushes, for every file, as it was.
C19_VerdictsIgnoreCount ==
    (FirstRunDone /\ config.analysisMode = "regex" /\ unreadable = {}) =>
        \A i \in 1..Len(scanned) : \A n \in 1..Len(usageMap) :
            VerdictsOf(i, RecordedAgain(usageMap, n)) = VerdictsOf(i, usageMap)

\* Files i and j each hold one declaration of the same name, as statements k
\* and h, and the name occurs in no other statement of the file set.
DefinedInBoth(i, k, j, h) ==
    /\ i # j
    /\ files[i][k].kind \in {"func", "var"}
    /\ files[j][h].kind \in {"func", "var"}
    /\ files[i][k].name = files[j][h].name
    /\ ~Unparsable(files[i][k]) /\ ~Unparsable(files[j][h])
    /\ ~Filtered(files[i][k].name)
    /\ \A g \in 1..Len(files) : \A m \in 1..Len(files[g]) :
           (<<g, m>> \notin {<<i, k>>, <<j, h>>}) => files[g][m].name # files[i][k].name

\* C20: definitions are judged per (file, name): when two files each define
\* the same name and nothing else refers to it, the completed run, under
\* either strategy, reports the definition of each file in the list of its
\* kind; the declaration of one file is no use of the other's.
C20_SameNameJudgedPerFile ==
    (FirstRunDone /\ unreadable = {}) =>
        \A i \in 1..Len(files), j \in 1..Len(files) :
            \A k \in 1..Len(files[i]), h \in 1..Len(files[j]) :
                DefinedInBoth(i, k, j, h) =>
                    Reported(KindList(files[i][k]), files[i][k].name,
                             {ListedPath(i), PathStr(GlobFiles[i])})

\* The statements of the analysed file that are imports, of any form.
ImportKinds == {"importDefault", "importNamed", "importAs", "importAll"}

\* The names the analysed file binds by an import.
BoundByImport(stmts) ==
    {stmts[k].name : k \in {h \in 1..Len(stmts) : stmts[h].kind \in ImportKinds
                                                   /\ ~Filtered(stmts[h].name)}}

\* The names of the import Definitions of a file analysis.
ImportDefinitions(result) ==
    {result.definitions[n].name :
        n \in {m \in 1..Len(result.definitions) : result.definitions[m].type = "import"}}

\* C21: the structural analysis of a file registers, for every import
\* specifier, the name the import binds in the file as an import Definition:
\* the local name of a default, namespace or named import, the alias b of
\* import { a as b }.
C21_ImportDefinitionIsLocalName ==
    call.fn = "analyzeFile" =>
        ImportDefinitions(call.result) = BoundByImport(call.args.stmts)

\* Statement k of the analysed file is a declaration of a function or a
\* variable wrapped in a named or a default export, of a name that is kept.
ExportedDeclaration(stmts, k) ==
    /\ stmts[k].kind \in {"func", "var"}
    /\ stmts[k].exp \in {"export", "default"}
    /\ ~Filtered(stmts[k].name)

\* C22: for a declaration wrapped in a named or a default export, the
\* structural analysis of the file registers the declaration as a Definition
\* and puts its name in the exported names of the file.
C22_ExportedDeclarationRecorded ==
    call.fn = "analyzeFile" =>
        \A k \in 1..Len(call.args.stmts) :
            ExportedDeclaration(call.args.stmts, k) =>
                /\ \E n \in 1..Len(call.result.definitions) :
                       /\ call.result.definitions[n].name = call.args.stmts[k].name
                       /\ call.result.definitions[n].type # "import"
                /\ Has(call.result.exports, call.args.stmts[k].name)

\* The label the heuristic gives a name for the text and the path of the
\* analysed file.
LabelFor(name, stmts, f) ==
    IF isLikelyComponent(name, TextOf(stmts), f) THEN "component" ELSE "function"

\* Statement k of the analysed file declares a function: a function
\* declaration, or a binding initialised with an arrow function.
FunctionValued(s) == s.kind = "func" \/ (s.kind = "var" /\ s.init = "arrow")

\* C23: every Definition the structural analysis registers for a declaration
\* is labelled variable when the declaration is a binding that is not
\* function-valued, and otherwise component or function as isLikelyComponent
\* says for the name, the content of the defining file and its path.
C23_LabelFollowsHeuristic ==
    call.fn = "analyzeFile" =>
        \A k \in 1..Len(call.args.stmts) : \A n \in 1..Len(call.result.definitions) :
            (/\ call.args.stmts[k].kind \in {"func", "var"}
             /\ call.result.definitions[n].name = call.args.stmts[k].name
             /\ call.result.definitions[n].type # "import"
             /\ \A h \in 1..Len(call.args.stmts) :
                    call.args.stmts[h].name = call.args.stmts[k].name
                        => FunctionValued(call.args.stmts[h]) = FunctionValued(call.args.stmts[k]))
            => call.result.definitions[n].type
                 = IF FunctionValued(call.args.stmts[k])
                   THEN LabelFor(call.args.stmts[k].name, call.args.stmts, call.args.filePath)
                   ELSE "variable"

\* The content refers to an identifier named as a hook: use, then a
\* capitalised word.
RefersToHook(content) == \E i \in 1..Len(content) : HookNamed([name |-> content[i]])

\* One of the signals that make an upper-case name a component is present.
ComponentSignal(content, f) ==
    \/ usesUseClientDirective(content)
    \/ isNextJsEntryPoint(f)
    \/ hasJSXReturn(content)
    \/ RefersToHook(content)
    \/ usesJSXAttributes(content)
    \/ usesReactFragment(content)
    \/ CallsSuffix(content, "memo") \/ CallsSuffix(content, "forwardRef")

\* C24: for a name that starts with an upper-case letter isLikelyComponent is
\* true exactly when a signal is present: the "use client" directive, an
\* entry-point path, a markup return, a reference to a hook-named identifier
\* such as a call useThing(), a markup attribute, Fragment, memo or forwardRef.
C24_ComponentIffSignal ==
    (call.fn = "isLikelyComponent" /\ FirstChar(call.args.name) \in UpperLetters) =>
        (call.result <=> ComponentSignal(call.args.content, call.args.filePath))

\* The names of every Definition the lexical extraction finds in a text.
LexicallyDefined(content) ==
    LET d == LexDefinitions(FileA, content)
    IN RangeOf(d.components) \cup RangeOf(d.functions) \cup RangeOf(d.variables)
          \cup RangeOf(d.imports)

\* The names on the four definition-level unused lists.
ListedUnused(a) ==
    NamesOf(a.unusedComponents) \cup NamesOf(a.unusedFunctions)
        \cup NamesOf(a.unusedVariables) \cup NamesOf(a.unusedImports)

\* C25: under the lexical strategy a declaration or an import that stands only
\* inside a single-line or a block comment yields no Definition of any
\* category and is not reported unused.
C25_CommentedCodeYieldsNothing ==
    (call.fn = "performRegexAnalysis" /\ call.args.style \in {"line", "block"}) =>
        /\ call.args.stmt.name \notin LexicallyDefined(call.args.content)
        /\ call.args.stmt.name \notin ListedUnused(call.result.analysis)

\* A list in the opposite order.
Reversed(seq) == [i \in 1..Len(seq) |-> seq[Len(seq) + 1 - i]]

\* Two results hold the same entries in each of the five lists.
SameEntries(a, b) ==
    /\ RangeOf(a.unusedComponents) = RangeOf(b.unusedComponents)
    /\ RangeOf(a.unusedFunctions) = RangeOf(b.unusedFunctions)
    /\ RangeOf(a.unusedVariables) = RangeOf(b.unusedVariables)
    /\ RangeOf(a.unusedImports) = RangeOf(b.unusedImports)
    /\ RangeOf(a.unusedFiles) = RangeOf(b.unusedFiles)

\* The result of a fresh analyzer over the same files discovered in the
\* opposite order.
OppositeOrderRun ==
    RunOn(config.analysisMode, Reversed(GlobFiles), Reversed(files), config.srcDir,
          Fields(EmptyAnalysis, <<>>, <<>>)).analysis

\* C26: the verdicts do not depend on the order of discovery: under either
\* strategy the run of a fresh analyzer over the file list in another order
\* puts the same entries on each of the five unused lists.
C26_OrderIndependent ==
    FirstRunDone => SameEntries(analysis, OppositeOrderRun)

\* Both files hold code, one imports a name the other calls, and the run
\* reported something.
C26_Witness ==
    /\ FirstRunDone
    /\ \E i \in 1..Len(files) : \E j \in 1..Len(files) :
          /\ i < j
          /\ files[i] = <<ImportDefault("foo", HelperSpell)>>
          /\ files[j] = <<CallStmt("foo")>>
    /\ analysis.totalIssues > 0

\* The strategy that did not run.
OtherMode == IF config.analysisMode = "ast" THEN "regex" ELSE "ast"

\* The fields of a fresh analyzer after the strategy alone, before the
\* unused-file pass.
StrategyAlone ==
    IF config.analysisMode = "ast"
    THEN performASTAnalysis(GlobFiles, files, Fields(EmptyAnalysis, <<>>, <<>>))
    ELSE performRegexAnalysis(GlobFiles, [i \in 1..Len(files) |-> TextOf(files[i])],
                              config.srcDir, Fields(EmptyAnalysis, <<>>, <<>>))

\* C27: the unused-file pass depends neither on the strategy nor on the usage
\* index: a fresh analyzer under the other strategy lists the same unused
\* files, and after the run the usage index and the four definition-level
\* lists are what the strategy alone left.
C27_FilePassIndependent ==
    FirstRunDone =>
        /\ analysis.unusedFiles
              = RunOn(OtherMode, GlobFiles, files, config.srcDir,
                      Fields(EmptyAnalysis, <<>>, <<>>)).analysis.unusedFiles
        /\ usageMap = StrategyAlone.usageMap
        /\ analysis.unusedComponents = StrategyAlone.analysis.unusedComponents
        /\ analysis.unusedFunctions = StrategyAlone.analysis.unusedFunctions
        /\ analysis.unusedVariables = StrategyAlone.analysis.unusedVariables
        /\ analysis.unusedImports = StrategyAlone.analysis.unusedImports

\* A run that listed an unused file and an unused import, with occurrences in
\* the usage index.
C27_Witness ==
    /\ FirstRunDone
    /\ Len(analysis.unusedFiles) > 0
    /\ Len(analysis.unusedImports) > 0
    /\ Len(usageMap) > 0

\* The usage index over every discovered file, under the lexical strategy.
CompleteIndex ==
    buildUsageMap(GlobFiles, [i \in 1..Len(files) |-> TextOf(files[i])], config.srcDir)

\* The entries of a list that are for file i.
EntriesFor(list, i) == SelectSeq(list, LAMBDA e : e.file = ListedPath(i))

\* Under the lexical strategy file i was judged against the complete index.
JudgedOnCompleteIndex(i) ==
    /\ EntriesFor(analysis.unusedComponents, i)
          = VerdictsOf(i, CompleteIndex).unusedComponents
    /\ EntriesFor(analysis.unusedFunctions, i) = VerdictsOf(i, CompleteIndex).unusedFunctions
    /\ EntriesFor(analysis.unusedVariables, i) = VerdictsOf(i, CompleteIndex).unusedVariables
    /\ EntriesFor(analysis.unusedImports, i) = VerdictsOf(i, CompleteIndex).unusedImports

\* Statement k of file i defines or imports a name that a later file j calls.
CalledLater(i, k, j) ==
    /\ i < j
    /\ files[i][k].kind \in {"func", "var", "importDefault"}
    /\ \E h \in 1..Len(files[j]) : files[j][h] = CallStmt(files[i][k].name)

\* C28: the usage index is complete before any verdict: under the lexical
\* strategy every file is judged against the occurrences of all discovered
\* files, and under either strategy a definition in an earlier file whose name
\* a later file calls is on no unused list.
C28_IndexCompleteBeforeVerdicts ==
    FirstRunDone =>
        /\ config.analysisMode = "regex" =>
              /\ usageMap = CompleteIndex
              /\ \A i \in 1..Len(files) : JudgedOnCompleteIndex(i)
        /\ \A i \in 1..Len(files), j \in 1..Len(files) : \A k \in 1..Len(files[i]) :
              CalledLater(i, k, j) =>
                  ~Reported(analysis.unusedComponents \o analysis.unusedFunctions
                               \o analysis.unusedVariables \o analysis.unusedImports,
                            files[i][k].name, {ListedPath(i), PathStr(GlobFiles[i])})

\* A lexical run over an import in the first file of a name that only the
\* last file calls.
C28_Witness ==
    /\ FirstRunDone /\ config.analysisMode = "regex"
    /\ files[1] = <<ImportDefault("foo", HelperSpell)>>
    /\ files[Len(files)] = <<CallStmt("foo")>>
    /\ analysis.unusedImports = <<>>

\* The report finds a line for an entry: definitionLines holds a line under
\* the key <file>:<name> made of the entry's own file and name.
LineFound(e) ==
    \E n \in 1..Len(definitionLines) :
        definitionLines[n].key = LineKey(e.file, e.name) /\ definitionLines[n].line > 0

\* C29: every definition on one of the four definition-level unused lists is
\* printed with its line: definitionLines holds a line under the key the
\* report looks up for the entry, under either strategy.
C29_EveryEntryHasItsLine ==
    FirstRunDone =>
        \A e \in RangeOf(analysis.unusedComponents) \cup RangeOf(analysis.unusedFunctions)
                  \cup RangeOf(analysis.unusedVariables) \cup RangeOf(analysis.unusedImports) :
            LineFound(e)

\* File i of the pass meets the six conditions of an unused file.
PassUnused(i) ==
    FileUnused(i, GlobFiles, [h \in 1..Len(GlobFiles) |-> TextOf(call.args.stmts[h])],
               DefaultSrcDir)

\* C30: a failure of fs.statSync in the unused-file pass is swallowed: the
\* file is warned about and left out of unusedFiles, every other file that
\* meets the conditions is listed, and the report is generated with the total
\* of what was listed.
C30_StatFailureSwallowed ==
    call.fn = "findUnusedFiles" =>
        /\ \A i \in 1..Len(GlobFiles) :
              LET path == RelativeTo(DefaultSrcDir, GlobFiles[i])
              IN IF GlobFiles[i] \in call.args.noStat
                 THEN /\ path \notin PathsOf(call.result.analysis.unusedFiles)
                      /\ PassUnused(i) => path \in call.result.warned
                 ELSE /\ PassUnused(i) <=> path \in PathsOf(call.result.analysis.unusedFiles)
                      /\ path \notin call.result.warned
        /\ call.result.analysis.totalIssues = Len(call.result.analysis.unusedFiles)

\* The size of the first file cannot be taken, and the second is listed.
C30_Witness ==
    /\ call.fn = "findUnusedFiles"
    /\ call.args.noStat = {GlobFiles[1]}
    /\ PassUnused(1)
    /\ call.result.warned = {RelativeTo(DefaultSrcDir, GlobFiles[1])}
    /\ PathsOf(call.result.analysis.unusedFiles) = {RelativeTo(DefaultSrcDir, GlobFiles[2])}

====
